---- MODULE Spec2Model ----
(***************************************************************************)
(* fling: presence/rendezvous server (fling-server), the client's          *)
(* signaling read side (fling-native, fling-wasm) and the import pipeline  *)
(* (fling-native / fling-wasm IrohNode::import, fling-gui                   *)
(* IrohNode::create_collection).                                           *)
(*                                                                         *)
(* Server tasks run on tokio's multi-threaded runtime, so the read tasks   *)
(* of different connections interleave between any two of their            *)
(* statements; each action below is one statement (or a run of statements  *)
(* that touch no shared state) of one task.                                *)
(***************************************************************************)
EXTENDS Integers, Sequences, FiniteSets, TLC

(***************************************************************************)
(* Bounds of the model.                                                    *)
(***************************************************************************)
\* items the server reads from its sockets (text frames and ends of stream),
\* over all connections
MaxInputs == 3
\* capacity of a connection's outbound mpsc queue: mpsc::channel(100) in the
\* source, scaled down so that a full queue is reachable
MpscCap == 2
\* capacity of the broadcast ring: broadcast::channel(100) in the source,
\* scaled down so that a lagging subscriber is reachable
BroadcastCap == 2
\* unparseable text frames that reach the client
MaxBad == 1
\* files of one PrepareFile
MaxFiles == 3
\* commands the UI puts on from_ui
MaxCmds == 2
\* items one fetch stream yields before its Done
MaxItems == 2
\* payload blobs of the Collection a ticket addresses, and their largest size
MaxBlobs == 2
MaxSize == 1

\* connections, numbered in the order in which they connect
Conn == {1, 2}
Nick == {"a", "b"}
Ticket == {"t1", "t2"}
\* String::new(): current_username before any Register
NoName == ""
NoConn == 0

(***************************************************************************)
(* WebSocketMessage and its JSON encoding                                  *)
(* #[serde(tag = "type", content = "payload", rename_all = "snake_case")]  *)
(***************************************************************************)
Msg(type, nick, ticket, users) ==
    [type |-> type, nick |-> nick, ticket |-> ticket, users |-> users]

Register(n)         == Msg("Register", n, "", {})
RegisterSuccess(us) == Msg("RegisterSuccess", NoName, "", us)
UserJoined(n)       == Msg("UserJoined", n, "", {})
UserLeft(n)         == Msg("UserLeft", n, "", {})
SendFile(r, t)      == Msg("SendFile", r, t, {})
ReceiveFile(t)      == Msg("ReceiveFile", NoName, t, {})
ErrorDeserializingJson == Msg("ErrorDeserializingJson", NoName, "", {})

\* rename_all = "snake_case": variant name -> value of the "type" field
SnakeCase ==
    [Register |-> "register", RegisterSuccess |-> "register_success",
     UserJoined |-> "user_joined", UserLeft |-> "user_left",
     SendFile |-> "send_file", ReceiveFile |-> "receive_file",
     ErrorDeserializingJson |-> "error_deserializing_json"]

\* to_json: {"type": <snake_case variant>, "payload": <variant data>}
ToJson(m) ==
    [tag |-> SnakeCase[m.type],
     payload |-> [nick |-> m.nick, ticket |-> m.ticket, users |-> m.users]]

\* a text frame that is no WebSocketMessage
BadFrame == [tag |-> "bogus", payload |-> [nick |-> NoName, ticket |-> "", users |-> {}]]

ParseError == Msg("Err", NoName, "", {})

\* serde_json::from_str::<WebSocketMessage>: the variant whose snake_case name
\* is the "type" field, Err when there is none
FromJson(f) ==
    IF \E v \in DOMAIN SnakeCase : SnakeCase[v] = f.tag
    THEN LET v == CHOOSE v \in DOMAIN SnakeCase : SnakeCase[v] = f.tag
         IN  Msg(v, f.payload.nick, f.payload.ticket, f.payload.users)
    ELSE ParseError

(***************************************************************************)
(* State                                                                   *)
(***************************************************************************)
VARIABLES
    \* ---- fling-server ----
    status,            \* per connection: "idle" (not yet connected), "open", "closed"
    pc,                \* per connection: position of its read task
    arg,               \* per connection: locals of the handler the read task is in
    current_username,  \* per connection: read()'s current_username
    users_list,        \* AppState.users_list: nickname -> connection whose Sender it holds
    outq,              \* per connection: its mpsc queue (tx -> rx of the write task)
    sock,              \* per connection: the frames its write task has written
    bq,                \* per connection: broadcast messages its Receiver has not received yet
    sub,               \* per connection: its broadcast_read task: "off", "run", "lagged" (recv() = Err, task over)
    held,              \* per connection: the message broadcast_read has received and not yet sent on
    ninputs,           \* items read from the sockets so far, over all connections
    \* ---- history (not program state; what the claims speak about) ----
    regSeq,            \* the directory inserts, in the order they were applied
    replies,           \* every RegisterSuccess computed: insert index, list, inserts applied when read
    bcastLog,          \* every message sent on broadcast_tx, in order
    subAt,             \* per connection: Len(bcastLog) when it subscribed
    \* ---- client (fling-native, fling-gui, fling-wasm) ----
    build,             \* which client this is: "native", "gui" or "wasm"
    events,            \* the AppEvents sent on tx (network tasks -> UI), in order
    ws_loop,           \* the task that reads the websocket: "off", "run", "over"
    ws_pos,            \* frames of the server's socket the client has read
    nbad,              \* unparseable text frames the client has read
    \* ---- import pipeline and its coordinator ----
    files,             \* PrepareFile.files: [name, ok]; ok = the source can be imported
    coord,             \* the task that serves from_ui: "off", "wait", "import", "idle"
    imp,               \* import()/create_collection(): "off", "batch", "run", "assembled", "stored", "ok", "err"
    task,              \* per file: "queued", "run", "done", "failed", "spin"
    pos,               \* per file: items taken from its AddProgress stream
    completed,         \* the files whose import succeeded, in completion order
    collection,        \* the Collection committed to the store (file names, in order)
    committed,         \* collection.store() has succeeded
    sent,              \* the frames the coordinator has written to the websocket
    \* ---- download pipeline (the DownloadFile arm of the coordinator) ----
    sizes,             \* size of each blob of the ticket's hash sequence; index 1 is the collection blob
    have,              \* the blobs that are complete in the local store
    from_ui,           \* the commands sent with send_ws and not yet received by the coordinator
    ncmds,             \* commands sent so far
    dl,                \* the coordinator: "off", "recv", "download", "local", "connect", "sizes",
                       \*   "fetch", "load", "export", "cleanup", "dead" (the task has panicked)
    need,              \* local_info.missing(): the blobs execute_get is asked for
    actual_size,       \* size.iter().skip(1).sum()
    bytes,             \* bytes the fetch stream has received
    nitems,            \* items the fetch stream has yielded
    live,              \* the fetch stream has not ended
    next_entry,        \* export loop: the blob exported next
    calls,             \* store and network calls of the job being served, in order
    exported,          \* export attempts of the job being served: [blob, ok]
    outcome,           \* outcome of each job served, in order: "complete" or "failed"
    \* ---- UI ----
    ui_pos,            \* events the UI has taken with try_recv
    progress,          \* UI.progress
    is_downloading,    \* UI.is_downloading
    exited,            \* on_exit has run
    app_state,         \* UI.app_state
    net                \* the client's network start-up (try_join! of ws_init, iroh_init): "off", "init", "up", "failed"

serverVars == <<status, pc, arg, current_username, users_list, outq, sock, bq,
                sub, held, ninputs, regSeq, replies, bcastLog, subAt>>

clientVars == <<build, events, ws_loop, ws_pos, nbad>>

importVars == <<files, coord, imp, task, pos, completed, collection, committed, sent>>

downloadVars == <<sizes, have, from_ui, ncmds, dl, need, actual_size, bytes, nitems,
                  live, next_entry, calls, exported, outcome>>

uiVars == <<ui_pos, progress, is_downloading, exited, app_state, net>>

vars == <<serverVars, clientVars, importVars, downloadVars, uiVars>>

NoMsg == Msg("None", NoName, "", {})

NoArg == [users |-> {}, to |-> NoConn, ticket |-> "", idx |-> 0]

\* AppState::new and the state before any client has connected
ServerInit ==
    /\ status = [c \in Conn |-> "idle"]
    /\ pc = [c \in Conn |-> "off"]
    /\ arg = [c \in Conn |-> NoArg]
    /\ current_username = [c \in Conn |-> NoName]
    /\ users_list = [n \in Nick |-> NoConn]
    /\ outq = [c \in Conn |-> << >>]
    /\ sock = [c \in Conn |-> << >>]
    /\ bq = [c \in Conn |-> << >>]
    /\ sub = [c \in Conn |-> "off"]
    /\ held = [c \in Conn |-> NoMsg]
    /\ ninputs = 0
    /\ regSeq = << >>
    /\ replies = {}
    /\ bcastLog = << >>
    /\ subAt = [c \in Conn |-> 0]

\* no client process of this repository is followed
ClientOff ==
    /\ build = "native"
    /\ events = << >>
    /\ ws_loop = "off"
    /\ ws_pos = 0
    /\ nbad = 0

\* no PrepareFile has been issued
ImportOff ==
    /\ files = << >>
    /\ coord = "off"
    /\ imp = "off"
    /\ task = << >>
    /\ pos = << >>
    /\ completed = << >>
    /\ collection = << >>
    /\ committed = FALSE
    /\ sent = << >>

\* f32 progress values are kept as the quotient they were computed from
Fraction(num, den) == [num |-> num, den |-> den]

\* no coordinator of a client is followed, the UI is as UI::new leaves it
DownloadOff ==
    /\ sizes = << >>
    /\ have = {}
    /\ from_ui = << >>
    /\ ncmds = 0
    /\ dl = "off"
    /\ need = {}
    /\ actual_size = 0
    /\ bytes = 0
    /\ nitems = 0
    /\ live = FALSE
    /\ next_entry = 0
    /\ calls = << >>
    /\ exported = << >>
    /\ outcome = << >>

\* UI::new
UiInit ==
    /\ ui_pos = 0
    /\ progress = Fraction(0, 1)
    /\ is_downloading = FALSE
    /\ exited = FALSE

\* NativeNetwork::new has spawned the start-up task; UI::new: AppState::Connecting
NetInit ==
    /\ app_state = "Connecting"
    /\ net = "init"

\* start-up has succeeded; the nickname has been published
NetUp ==
    /\ app_state = "WaitForRegisterConfirmation"
    /\ net = "up"

\* start-up has succeeded and RegisterSuccess has been handled
NetReady ==
    /\ app_state = "Ready"
    /\ net = "up"

Init == ServerInit /\ ClientOff /\ ImportOff /\ DownloadOff /\ UiInit /\ NetInit

(***************************************************************************)
(* Channels                                                                *)
(***************************************************************************)
\* mpsc Sender::send(m).await on connection d's queue completes only when the
\* queue has room.  After d's socket has closed its write task still drains the
\* queue (every socket write fails and is .ok()'d), so the queue of a closed
\* connection never stays full; its content is no longer observed by anyone.
HasRoom(d) == status[d] = "closed" \/ Len(outq[d]) < MpscCap

Enqueue(q, d, m) ==
    [q EXCEPT ![d] = IF status[d] = "closed" THEN q[d] ELSE Append(q[d], m)]

\* broadcast::Sender::send: every live Receiver gets the message; a Receiver
\* that already has BroadcastCap messages pending loses the oldest one and its
\* next recv() returns Err(Lagged)
BroadcastTo(b, m) ==
    [d \in Conn |->
        IF sub[d] = "run"
        THEN IF Len(b[d]) < BroadcastCap THEN Append(b[d], m) ELSE << >>
        ELSE b[d]]

LaggedBy(b) ==
    [d \in Conn |->
        IF sub[d] = "run" /\ Len(b[d]) >= BroadcastCap THEN "lagged" ELSE sub[d]]

\* a DashMap Ref (shard read lock) on key n is held by a read task that waits
\* for room in the recipient's queue inside `if let Some(maybe) = users_list.get(..)`
RefHeld(n) == \E c \in Conn : pc[c] = "route_wait" /\ arg[c].users = {n}

(***************************************************************************)
(* handle_socket: a client connects                                        *)
(***************************************************************************)
\* split the socket, create the mpsc queue, subscribe to the broadcast channel,
\* spawn write, read and broadcast_read
handle_socket(c) ==
    /\ status[c] = "idle"
    /\ \A d \in Conn : d < c => status[d] # "idle"
    /\ status' = [status EXCEPT ![c] = "open"]
    /\ pc' = [pc EXCEPT ![c] = "recv"]
    /\ sub' = [sub EXCEPT ![c] = "run"]
    /\ subAt' = [subAt EXCEPT ![c] = Len(bcastLog)]
    /\ UNCHANGED <<arg, current_username, users_list, outq, sock, bq, held,
                   ninputs, regSeq, replies, bcastLog>>

(***************************************************************************)
(* read: one action per statement that touches shared state                *)
(***************************************************************************)
CanRecv(c) == status[c] = "open" /\ pc[c] = "recv" /\ ninputs < MaxInputs

\* RegisterInsert with an insert that keeps an existing entry
\* (entry().or_insert instead of insert)
RegisterInsert_KeepFirst(c, n) ==
    /\ status[c] = "open" /\ pc[c] = "recv" /\ ninputs < MaxInputs
    /\ users_list' = IF users_list[n] = NoConn
                      THEN [users_list EXCEPT ![n] = c] ELSE users_list
    /\ current_username' = [current_username EXCEPT ![c] = n]
    /\ regSeq' = Append(regSeq, [conn |-> c, nick |-> n])
    /\ arg' = [arg EXCEPT ![c] = [NoArg EXCEPT !.idx = Len(regSeq) + 1]]
    /\ pc' = [pc EXCEPT ![c] = "reg_list"]
    /\ ninputs' = ninputs + 1
    /\ UNCHANGED <<status, outq, sock, bq, sub, held, replies, bcastLog, subAt>>

\* Register(nickname): users_list.insert(nickname, tx); current_username = nickname
\* (insert takes the shard's write lock, so it waits while a Ref on the key is held)
RegisterInsert(c, n) ==
    /\ CanRecv(c)
    /\ FromJson(ToJson(Register(n))).type = "Register"
    /\ ~RefHeld(n)
    /\ users_list' = [users_list EXCEPT ![n] = c]
    /\ current_username' = [current_username EXCEPT ![c] = n]
    /\ regSeq' = Append(regSeq, [conn |-> c, nick |-> n])
    /\ arg' = [arg EXCEPT ![c] = [NoArg EXCEPT !.idx = Len(regSeq) + 1]]
    /\ pc' = [pc EXCEPT ![c] = "reg_list"]
    /\ ninputs' = ninputs + 1
    /\ UNCHANGED <<status, outq, sock, bq, sub, held, replies, bcastLog, subAt>>

\* the keys currently in the directory
Keys == {n \in Nick : users_list[n] # NoConn}

\* CurrentUsers without the filter on current_username
CurrentUsers_NoFilter(c) == Keys \cup {n \in Nick : n = current_username[c]}

\* current_users = users_list.iter().map(key).filter(|n| &current_username != n)
CurrentUsers(c) == {n \in Keys : n # current_username[c]}

RegisterList(c) ==
    /\ pc[c] = "reg_list"
    /\ arg' = [arg EXCEPT ![c].users = CurrentUsers(c)]
    /\ replies' = replies \cup
          {[idx |-> arg[c].idx, users |-> CurrentUsers(c), upto |-> Len(regSeq)]}
    /\ pc' = [pc EXCEPT ![c] = "reg_reply"]
    /\ UNCHANGED <<status, current_username, users_list, outq, sock, bq, sub,
                   held, ninputs, regSeq, bcastLog, subAt>>

\* RegisterReply that moves on to the broadcast without queueing the reply
RegisterReply_NoEnqueue(c) ==
    /\ pc[c] = "reg_reply"
    /\ HasRoom(c)
    /\ pc' = [pc EXCEPT ![c] = "reg_bcast"]
    /\ UNCHANGED <<status, arg, current_username, users_list, outq, sock, bq, sub,
                   held, ninputs, regSeq, replies, bcastLog, subAt>>

\* tx.send(RegisterSuccess(current_users)).await.ok()
RegisterReply(c) ==
    /\ pc[c] = "reg_reply"
    /\ HasRoom(c)
    /\ outq' = Enqueue(outq, c, RegisterSuccess(arg[c].users))
    /\ pc' = [pc EXCEPT ![c] = "reg_bcast"]
    /\ UNCHANGED <<status, arg, current_username, users_list, sock, bq, sub,
                   held, ninputs, regSeq, replies, bcastLog, subAt>>

\* RegisterBroadcast that forgets to notify
RegisterBroadcast_Silent(c) ==
    /\ pc[c] = "reg_bcast"
    /\ arg' = [arg EXCEPT ![c] = NoArg]
    /\ pc' = [pc EXCEPT ![c] = "recv"]
    /\ UNCHANGED <<status, current_username, users_list, outq, sock, bq, sub,
                   held, ninputs, regSeq, replies, bcastLog, subAt>>

\* broadcast_tx.send(UserJoined(nickname)).ok()
RegisterBroadcast(c) ==
    /\ pc[c] = "reg_bcast"
    /\ bq' = BroadcastTo(bq, UserJoined(current_username[c]))
    /\ sub' = LaggedBy(bq)
    /\ bcastLog' = Append(bcastLog, UserJoined(current_username[c]))
    /\ arg' = [arg EXCEPT ![c] = NoArg]
    /\ pc' = [pc EXCEPT ![c] = "recv"]
    /\ UNCHANGED <<status, current_username, users_list, outq, sock, held,
                   ninputs, regSeq, replies, subAt>>

\* RouteDrop that answers the sender with an error message
RouteDrop_ReplyError(c, r, t) ==
    /\ status[c] = "open" /\ pc[c] = "recv" /\ ninputs < MaxInputs
    /\ users_list[r] = NoConn
    /\ HasRoom(c)
    /\ outq' = Enqueue(outq, c, ErrorDeserializingJson)
    /\ ninputs' = ninputs + 1
    /\ UNCHANGED <<status, pc, arg, current_username, users_list, sock, bq,
                   sub, held, regSeq, replies, bcastLog, subAt>>

\* SendFile { recipient, ticket }: users_list.get(&recipient) is None: nothing is done
RouteDrop(c, r, t) ==
    /\ CanRecv(c)
    /\ FromJson(ToJson(SendFile(r, t))).type = "SendFile"
    /\ users_list[r] = NoConn
    /\ ninputs' = ninputs + 1
    /\ UNCHANGED <<status, pc, arg, current_username, users_list, outq, sock, bq,
                   sub, held, regSeq, replies, bcastLog, subAt>>

\* RouteSend that uses the handler's own tx instead of the recipient's Sender
RouteSend_ToSender(c, r, t) ==
    /\ status[c] = "open" /\ pc[c] = "recv" /\ ninputs < MaxInputs
    /\ users_list[r] # NoConn
    /\ HasRoom(c)
    /\ outq' = Enqueue(outq, c, ReceiveFile(t))
    /\ ninputs' = ninputs + 1
    /\ UNCHANGED <<status, pc, arg, current_username, users_list, sock, bq, sub,
                   held, regSeq, replies, bcastLog, subAt>>

\* SendFile { recipient, ticket }: the recipient's Sender is found and has room:
\* recipient_rx.send(ReceiveFile(ticket)).await completes at once
RouteSend(c, r, t) ==
    /\ CanRecv(c)
    /\ FromJson(ToJson(SendFile(r, t))).type = "SendFile"
    /\ users_list[r] # NoConn
    /\ HasRoom(users_list[r])
    /\ outq' = Enqueue(outq, users_list[r], ReceiveFile(FromJson(ToJson(SendFile(r, t))).ticket))
    /\ ninputs' = ninputs + 1
    /\ UNCHANGED <<status, pc, arg, current_username, users_list, sock, bq, sub,
                   held, regSeq, replies, bcastLog, subAt>>

\* SendFile { recipient, ticket }: the recipient's queue is full: the read task
\* waits in send().await, still holding the Ref that get() returned
RouteWait(c, r, t) ==
    /\ CanRecv(c)
    /\ FromJson(ToJson(SendFile(r, t))).type = "SendFile"
    /\ users_list[r] # NoConn
    /\ ~HasRoom(users_list[r])
    /\ arg' = [arg EXCEPT ![c] = [users |-> {r}, to |-> users_list[r], ticket |-> t, idx |-> 0]]
    /\ pc' = [pc EXCEPT ![c] = "route_wait"]
    /\ ninputs' = ninputs + 1
    /\ UNCHANGED <<status, current_username, users_list, outq, sock, bq, sub,
                   held, regSeq, replies, bcastLog, subAt>>

\* the queue has room again: the pending send completes and the Ref is dropped
RouteResume(c) ==
    /\ pc[c] = "route_wait"
    /\ HasRoom(arg[c].to)
    /\ outq' = Enqueue(outq, arg[c].to, ReceiveFile(arg[c].ticket))
    /\ arg' = [arg EXCEPT ![c] = NoArg]
    /\ pc' = [pc EXCEPT ![c] = "recv"]
    /\ UNCHANGED <<status, current_username, users_list, sock, bq, sub, held,
                   ninputs, regSeq, replies, bcastLog, subAt>>

\* a text frame that does not parse: tx.send(ErrorDeserializingJson(e)).await.ok()
ParseFailure(c) ==
    /\ CanRecv(c)
    /\ FromJson(BadFrame) = ParseError
    /\ HasRoom(c)
    /\ outq' = Enqueue(outq, c, ErrorDeserializingJson)
    /\ ninputs' = ninputs + 1
    /\ UNCHANGED <<status, pc, arg, current_username, users_list, sock, bq, sub,
                   held, regSeq, replies, bcastLog, subAt>>

\* the stream ends (None or Err): users_list.remove(&current_username).
\* The client is gone: what the connection's write and broadcast_read tasks do
\* from now on reaches nobody, and is no longer followed.
CloseRemove(c) ==
    /\ CanRecv(c)
    /\ ninputs' = ninputs + 1
    /\ current_username[c] \in Nick => ~RefHeld(current_username[c])
    /\ users_list' = [n \in Nick |->
                        IF n = current_username[c] THEN NoConn ELSE users_list[n]]
    /\ status' = [status EXCEPT ![c] = "closed"]
    /\ pc' = [pc EXCEPT ![c] = "close_bcast"]
    /\ outq' = [outq EXCEPT ![c] = << >>]
    /\ bq' = [bq EXCEPT ![c] = << >>]
    /\ held' = [held EXCEPT ![c] = NoMsg]
    /\ sub' = [sub EXCEPT ![c] = "off"]
    /\ UNCHANGED <<arg, current_username, sock, regSeq, replies, bcastLog, subAt>>

\* broadcast_tx.send(UserLeft(current_username)).ok()
CloseBroadcast(c) ==
    /\ pc[c] = "close_bcast"
    /\ bq' = BroadcastTo(bq, UserLeft(current_username[c]))
    /\ sub' = LaggedBy(bq)
    /\ bcastLog' = Append(bcastLog, UserLeft(current_username[c]))
    /\ pc' = [pc EXCEPT ![c] = "done"]
    /\ UNCHANGED <<status, arg, current_username, users_list, outq, sock, held,
                   ninputs, regSeq, replies, subAt>>

(***************************************************************************)
(* broadcast_read: relay join/leave broadcasts into the connection's queue *)
(***************************************************************************)
\* broadcast_rx.recv().await returned Ok(msg)
SubscriberRecv(c) ==
    /\ sub[c] = "run"
    /\ held[c] = NoMsg
    /\ bq[c] # << >>
    /\ held' = [held EXCEPT ![c] = Head(bq[c])]
    /\ bq' = [bq EXCEPT ![c] = Tail(bq[c])]
    /\ UNCHANGED <<status, pc, arg, current_username, users_list, outq, sock,
                   sub, ninputs, regSeq, replies, bcastLog, subAt>>

\* Relayed with the UserJoined arm missing
Relayed_LeftOnly(m) == m.type = "UserLeft"

\* what broadcast_read sends on for a received message: UserJoined and UserLeft
\* are relayed, anything else is skipped
Relayed(m) == m.type \in {"UserJoined", "UserLeft"}

\* tx.send(msg).await.ok()
SubscriberSend(c) ==
    /\ held[c] # NoMsg
    /\ HasRoom(c)
    /\ outq' = IF Relayed(held[c]) THEN Enqueue(outq, c, held[c]) ELSE outq
    /\ held' = [held EXCEPT ![c] = NoMsg]
    /\ UNCHANGED <<status, pc, arg, current_username, users_list, sock, bq, sub,
                   ninputs, regSeq, replies, bcastLog, subAt>>

(***************************************************************************)
(* write: the connection's only writer                                     *)
(***************************************************************************)
\* the variants write() forwards; any other is taken off the queue and skipped
Forwarded(m) ==
    m.type \in {"RegisterSuccess", "UserJoined", "UserLeft", "ReceiveFile",
                "ErrorDeserializingJson"}

\* write that takes the message enqueued last instead of the one enqueued first
write_NewestFirst(c) ==
    /\ status[c] = "open"
    /\ outq[c] # << >>
    /\ sock' = [sock EXCEPT ![c] =
                  IF Forwarded(outq[c][Len(outq[c])])
                  THEN Append(@, ToJson(outq[c][Len(outq[c])])) ELSE @]
    /\ outq' = [outq EXCEPT ![c] = SubSeq(@, 1, Len(@) - 1)]
    /\ UNCHANGED <<status, pc, arg, current_username, users_list, bq, sub, held,
                   ninputs, regSeq, replies, bcastLog, subAt>>

\* rx.recv().await, then sender.send(Message::Text(msg.to_json())).await.ok()
write(c) ==
    /\ status[c] = "open"
    /\ outq[c] # << >>
    /\ sock' = [sock EXCEPT ![c] =
                  IF Forwarded(Head(outq[c])) THEN Append(@, ToJson(Head(outq[c]))) ELSE @]
    /\ outq' = [outq EXCEPT ![c] = Tail(@)]
    /\ UNCHANGED <<status, pc, arg, current_username, users_list, bq, sub, held,
                   ninputs, regSeq, replies, bcastLog, subAt>>

ServerNext(C) ==
    \/ \E c \in C : handle_socket(c) /\ UNCHANGED <<clientVars, importVars, downloadVars, uiVars>>
    \/ \E c \in C, n \in Nick : RegisterInsert(c, n) /\ UNCHANGED <<clientVars, importVars, downloadVars, uiVars>>
    \/ \E c \in C : RegisterList(c) /\ UNCHANGED <<clientVars, importVars, downloadVars, uiVars>>
    \/ \E c \in C : RegisterReply(c) /\ UNCHANGED <<clientVars, importVars, downloadVars, uiVars>>
    \/ \E c \in C : RegisterBroadcast(c) /\ UNCHANGED <<clientVars, importVars, downloadVars, uiVars>>
    \/ \E c \in C, r \in Nick, t \in Ticket : RouteDrop(c, r, t) /\ UNCHANGED <<clientVars, importVars, downloadVars, uiVars>>
    \/ \E c \in C, r \in Nick, t \in Ticket : RouteSend(c, r, t) /\ UNCHANGED <<clientVars, importVars, downloadVars, uiVars>>
    \/ \E c \in C, r \in Nick, t \in Ticket : RouteWait(c, r, t) /\ UNCHANGED <<clientVars, importVars, downloadVars, uiVars>>
    \/ \E c \in C : RouteResume(c) /\ UNCHANGED <<clientVars, importVars, downloadVars, uiVars>>
    \/ \E c \in C : ParseFailure(c) /\ UNCHANGED <<clientVars, importVars, downloadVars, uiVars>>
    \/ \E c \in C : CloseRemove(c) /\ UNCHANGED <<clientVars, importVars, downloadVars, uiVars>>
    \/ \E c \in C : CloseBroadcast(c) /\ UNCHANGED <<clientVars, importVars, downloadVars, uiVars>>
    \/ \E c \in C : SubscriberRecv(c) /\ UNCHANGED <<clientVars, importVars, downloadVars, uiVars>>
    \/ \E c \in C : SubscriberSend(c) /\ UNCHANGED <<clientVars, importVars, downloadVars, uiVars>>
    \/ \E c \in C : write(c) /\ UNCHANGED <<clientVars, importVars, downloadVars, uiVars>>

Next == ServerNext(Conn)

Spec == Init /\ [][Next]_vars

(***************************************************************************)
(* AppEvent: what the network tasks report to the UI                       *)
(***************************************************************************)
AppEvent(type, data, users, context) ==
    [type |-> type, data |-> data, users |-> users, context |-> context,
     value |-> Fraction(0, 1)]

AppRegisterSuccess(us) == AppEvent("RegisterSuccess", "", us, "")
AddNewUser(n)          == AppEvent("AddNewUser", n, {}, "")
RemoveUser(n)          == AppEvent("RemoveUser", n, {}, "")
DownloadFile(t)        == AppEvent("DownloadFile", t, {}, "")
ImportStart            == AppEvent("ImportStart", "", {}, "")
ImportDone             == AppEvent("ImportDone", "", {}, "")
DownloadStart          == AppEvent("DownloadStart", "", {}, "")
DownloadDone           == AppEvent("DownloadDone", "", {}, "")
UpdateProgressValue(v) == [AppEvent("UpdateProgressValue", "", {}, "") EXCEPT !.value = v]
\* FatalError(anyhow!(e).context(context)); data is the file name that a
\* format!("Error importing {}", name) puts into the context
FatalError(context, name) == AppEvent("FatalError", name, {}, context)

(***************************************************************************)
(* The client's websocket read task                                        *)
(***************************************************************************)
\* the connection of the server that this client is the peer of
ClientConn == 1

Build == {"native", "gui", "wasm"}

\* ProcessNative that starts every download with one and the same ticket
ProcessNative_FixedTicket(f) ==
    LET m == FromJson(f)
    IN  CASE m = ParseError -> <<FatalError("Message parse failed", "")>>
          [] m.type = "RegisterSuccess" -> <<AppRegisterSuccess(m.users)>>
          [] m.type = "UserJoined" -> <<AddNewUser(m.nick)>>
          [] m.type = "UserLeft" -> <<RemoveUser(m.nick)>>
          [] m.type = "ReceiveFile" -> <<DownloadFile("t1")>>
          [] m.type = "ErrorDeserializingJson" -> <<FatalError("Server JSON error", "")>>
          [] OTHER -> << >>

\* fling-native and fling-gui process_message: the events one text frame produces
ProcessNative(f) ==
    LET m == FromJson(f)
    IN  CASE m = ParseError -> <<FatalError("Message parse failed", "")>>
          [] m.type = "RegisterSuccess" -> <<AppRegisterSuccess(m.users)>>
          [] m.type = "UserJoined" -> <<AddNewUser(m.nick)>>
          [] m.type = "UserLeft" -> <<RemoveUser(m.nick)>>
          [] m.type = "ReceiveFile" -> <<DownloadFile(m.ticket)>>
          [] m.type = "ErrorDeserializingJson" -> <<FatalError("Server JSON error", "")>>
          [] OTHER -> << >>

\* fling-wasm process_message: only RegisterSuccess is handled; `Err(e) => {}`
ProcessWasm(f) ==
    LET m == FromJson(f)
    IN  CASE m = ParseError -> << >>
          [] m.type = "RegisterSuccess" -> <<AppRegisterSuccess(m.users)>>
          [] OTHER -> << >>

process_message(f) ==
    IF build = "wasm" THEN ProcessWasm(f) ELSE ProcessNative(f)

\* the websocket is open: the read task starts
ClientStart ==
    /\ ws_loop = "off"
    /\ status[ClientConn] = "open"
    /\ ws_loop' = "run"
    /\ UNCHANGED <<build, events, ws_pos, nbad>>

\* receiver.next() = Some(Ok(msg)): the next frame the server wrote
ClientFrame ==
    /\ ws_loop = "run"
    /\ ws_pos < Len(sock[ClientConn])
    /\ events' = events \o process_message(sock[ClientConn][ws_pos + 1])
    /\ ws_pos' = ws_pos + 1
    /\ UNCHANGED <<build, ws_loop, nbad>>

\* receiver.next() = Some(Ok(msg)): a text frame that is no WebSocketMessage
ClientBadFrame ==
    /\ ws_loop = "run"
    /\ status[ClientConn] = "open"
    /\ nbad < MaxBad
    /\ events' = events \o process_message(BadFrame)
    /\ nbad' = nbad + 1
    /\ UNCHANGED <<build, ws_loop, ws_pos>>

\* receiver.next() = None: native and gui report it and break, wasm's
\* `while let Some(..)` just ends
ClientEnd ==
    /\ ws_loop = "run"
    /\ status[ClientConn] = "closed"
    /\ ws_pos = Len(sock[ClientConn])
    /\ events' = IF build = "wasm" THEN events
                 ELSE Append(events, FatalError("WebSocket disconnected", ""))
    /\ ws_loop' = "over"
    /\ UNCHANGED <<build, ws_pos, nbad>>

InitParse ==
    /\ ServerInit
    /\ ImportOff
    /\ DownloadOff
    /\ UiInit
    /\ NetUp
    /\ build \in Build
    /\ events = << >>
    /\ ws_loop = "off"
    /\ ws_pos = 0
    /\ nbad = 0

NextParse ==
    \/ ServerNext({ClientConn})
    \/ ClientStart /\ UNCHANGED <<serverVars, importVars, downloadVars, uiVars>>
    \/ ClientFrame /\ UNCHANGED <<serverVars, importVars, downloadVars, uiVars>>
    \/ ClientBadFrame /\ UNCHANGED <<serverVars, importVars, downloadVars, uiVars>>
    \/ ClientEnd /\ UNCHANGED <<serverVars, importVars, downloadVars, uiVars>>

\* one client and the server connection it is the peer of
SpecParse == InitParse /\ [][NextParse]_vars

(***************************************************************************)
(* The import pipeline: IrohNode::import (fling-native) and                *)
(* IrohNode::create_collection (fling-gui), and the coordinator that       *)
(* serves PrepareFile                                                      *)
(***************************************************************************)
FileName == {"f", "g"}
File == [name : FileName, ok : BOOLEAN]

\* buffered_unordered(8): at most 8 imports run at a time
ImportWidth == 8

\* PrepareFile.recipient, and the ticket made of the committed Collection
JobRecipient == "b"
JobTicket == "t1"

\* the items of one file's AddProgress stream: Done(tag) is the last item of
\* an import that succeeded, Error(e) the last item of one that failed
Stream(f) == IF f.ok THEN <<"Size", "Done">> ELSE <<"Size", "Error">>

Names(q) == [k \in 1..Len(q) |-> files[q[k]].name]

Min(S) == CHOOSE x \in S : \A y \in S : x <= y

\* the orders in which a HashMap's into_iter() may yield a set of keys
Orders(S) ==
    {q \in [1..Cardinality(S) -> S] : \A i, j \in 1..Cardinality(S) : q[i] = q[j] => i = j}

wsVars == <<build, ws_loop, ws_pos, nbad>>

\* PrepareFile with an import that polls every file at once
\* (buffered_unordered without a limit)
PrepareFile_Unbounded ==
    /\ coord = "wait"
    /\ events' = Append(events, ImportStart)
    /\ coord' = "import"
    /\ imp' = IF build = "gui" THEN "batch" ELSE "run"
    /\ task' = [i \in DOMAIN files |-> IF build # "gui" THEN "run" ELSE "queued"]
    /\ UNCHANGED <<files, pos, completed, collection, committed, sent>>

\* PrepareFile { recipient, files } is taken from from_ui: ImportStart is sent
\* and the pipeline is entered
PrepareFile ==
    /\ coord = "wait"
    /\ events' = Append(events, ImportStart)
    /\ coord' = "import"
    /\ imp' = IF build = "gui" THEN "batch" ELSE "run"
    /\ task' = [i \in DOMAIN files |->
                  IF build # "gui" /\ i <= ImportWidth THEN "run" ELSE "queued"]
    /\ UNCHANGED <<files, pos, completed, collection, committed, sent>>

\* import: stream.next().await yields the file's next item.  Done(tt) breaks
\* the loop and frees a slot of buffered_unordered; Error(e) sends a FatalError
\* naming the file and the loop goes on; any other item is skipped
ImportItem(i) ==
    /\ build = "native" /\ imp = "run"
    /\ task[i] = "run"
    /\ pos[i] < Len(Stream(files[i]))
    /\ pos' = [pos EXCEPT ![i] = @ + 1]
    /\ LET item == Stream(files[i])[pos[i] + 1]
           queued == {j \in DOMAIN files : task[j] = "queued"}
       IN  /\ task' = IF item # "Done" THEN task
                      ELSE [j \in DOMAIN files |->
                              IF j = i THEN "done"
                              ELSE IF queued # {} /\ j = Min(queued) THEN "run"
                              ELSE task[j]]
           /\ completed' = IF item = "Done" THEN Append(completed, i) ELSE completed
           /\ events' = IF item = "Error"
                        THEN Append(events, FatalError("Error importing", files[i].name))
                        ELSE events
    /\ UNCHANGED <<files, coord, imp, collection, committed, sent>>

\* import: the stream has ended without Done: stream.next().await is None,
\* `if let Some(item)` does not match and the loop has no other exit
ImportPollEnded(i) ==
    /\ build = "native" /\ imp = "run"
    /\ task[i] = "run"
    /\ pos[i] = Len(Stream(files[i]))
    /\ task' = [task EXCEPT ![i] = "spin"]
    /\ UNCHANGED <<files, coord, imp, pos, completed, collection, committed, sent, events>>

\* import: collect() has every (name, tag), in completion order;
\* collection.store(&self.store).await? commits it or fails
ImportStore(ok) ==
    /\ build = "native" /\ imp = "run"
    /\ \A i \in DOMAIN files : task[i] = "done"
    /\ IF ok
       THEN collection' = Names(completed) /\ committed' = TRUE /\ imp' = "ok"
       ELSE imp' = "err" /\ UNCHANGED <<collection, committed>>
    /\ UNCHANGED <<files, coord, task, pos, completed, sent, events>>

\* create_collection: self.store.batch().await?
GuiBatch(ok) ==
    /\ build = "gui" /\ imp = "batch"
    /\ IF ok
       THEN imp' = "run" /\ task' = [i \in DOMAIN files |-> "run"]
       ELSE imp' = "err" /\ UNCHANGED task
    /\ UNCHANGED <<files, coord, pos, completed, collection, committed, sent, events>>

\* create_collection: one of the futures of join_all settles: Ok((file_name,
\* tmp_tag)), or the Err of File::open, Mmap::map or add_bytes
GuiAddBytes(i) ==
    /\ build = "gui" /\ imp = "run"
    /\ task[i] = "run"
    /\ task' = [task EXCEPT ![i] = IF files[i].ok THEN "done" ELSE "failed"]
    /\ completed' = IF files[i].ok THEN Append(completed, i) ELSE completed
    /\ UNCHANGED <<files, coord, imp, pos, collection, committed, sent, events>>

\* create_collection: join_all has returned; the results are walked in the
\* order of `files`: an Ok goes into the HashMap under its file name, an Err
\* sends FatalError("Failed to add blob")
GuiAssemble ==
    /\ build = "gui" /\ imp = "run"
    /\ \A i \in DOMAIN files : task[i] \in {"done", "failed"}
    /\ events' = events \o
          [k \in 1..Cardinality({i \in DOMAIN files : task[i] = "failed"}) |->
              FatalError("Failed to add blob", "")]
    /\ imp' = "assembled"
    /\ UNCHANGED <<files, coord, task, pos, completed, collection, committed, sent>>

\* create_collection: the Collection is built from the HashMap's into_iter()
\* and collection.store(&self.store).await? commits it or fails
GuiStore(order, ok) ==
    /\ build = "gui" /\ imp = "assembled"
    /\ order \in Orders({files[i].name : i \in {j \in DOMAIN files : task[j] = "done"}})
    /\ IF ok
       THEN collection' = order /\ committed' = TRUE /\ imp' = "stored"
       ELSE imp' = "err" /\ UNCHANGED <<collection, committed>>
    /\ UNCHANGED <<files, coord, task, pos, completed, sent, events>>

\* create_collection: self.store.tags().create(..).await?
GuiTag(ok) ==
    /\ build = "gui" /\ imp = "stored"
    /\ imp' = IF ok THEN "ok" ELSE "err"
    /\ UNCHANGED <<files, coord, task, pos, completed, collection, committed, sent, events>>

\* the pipeline returned Ok(tt): ImportDone is sent, the ticket is made and
\* SendFile { recipient, ticket } is written to the websocket; a failed write
\* sends FatalError("Websocket send failed")
ImportReturnedOk(written) ==
    /\ coord = "import" /\ imp = "ok"
    /\ events' = IF written THEN Append(events, ImportDone)
                 ELSE events \o <<ImportDone, FatalError("Websocket send failed", "")>>
    /\ sent' = IF written THEN Append(sent, ToJson(SendFile(JobRecipient, JobTicket)))
               ELSE sent
    /\ coord' = "idle"
    /\ UNCHANGED <<files, imp, task, pos, completed, collection, committed>>

\* try_or_continue!: the pipeline returned Err(e): FatalError is sent and the
\* loop continues with the next message from the UI
ImportReturnedErr ==
    /\ coord = "import" /\ imp = "err"
    /\ events' = Append(events, FatalError("Failed to import file(s)", ""))
    /\ coord' = "idle"
    /\ UNCHANGED <<files, imp, task, pos, completed, collection, committed, sent>>

\* the files of the PrepareFile: the UI sends it only with a file selected
Jobs == UNION {[1..n -> File] : n \in 1..MaxFiles}

InitImport ==
    /\ ServerInit
    /\ DownloadOff
    /\ UiInit
    /\ NetReady
    /\ build \in {"native", "gui"}
    /\ events = << >>
    /\ ws_loop = "off"
    /\ ws_pos = 0
    /\ nbad = 0
    /\ files \in Jobs
    /\ coord = "wait"
    /\ imp = "off"
    /\ task = [i \in DOMAIN files |-> "queued"]
    /\ pos = [i \in DOMAIN files |-> 0]
    /\ completed = << >>
    /\ collection = << >>
    /\ committed = FALSE
    /\ sent = << >>

\* the steps inside import() / create_collection()
PipelineStep ==
    \/ \E i \in DOMAIN files : ImportItem(i) /\ UNCHANGED <<serverVars, wsVars, downloadVars, uiVars>>
    \/ \E i \in DOMAIN files : ImportPollEnded(i) /\ UNCHANGED <<serverVars, wsVars, downloadVars, uiVars>>
    \/ \E ok \in BOOLEAN : ImportStore(ok) /\ UNCHANGED <<serverVars, wsVars, downloadVars, uiVars>>
    \/ \E ok \in BOOLEAN : GuiBatch(ok) /\ UNCHANGED <<serverVars, wsVars, downloadVars, uiVars>>
    \/ \E i \in DOMAIN files : GuiAddBytes(i) /\ UNCHANGED <<serverVars, wsVars, downloadVars, uiVars>>
    \/ GuiAssemble /\ UNCHANGED <<serverVars, wsVars, downloadVars, uiVars>>
    \/ \E order \in UNION {Orders(S) : S \in SUBSET FileName}, ok \in BOOLEAN :
          GuiStore(order, ok) /\ UNCHANGED <<serverVars, wsVars, downloadVars, uiVars>>
    \/ \E ok \in BOOLEAN : GuiTag(ok) /\ UNCHANGED <<serverVars, wsVars, downloadVars, uiVars>>

NextImport ==
    \/ PrepareFile /\ UNCHANGED <<serverVars, wsVars, downloadVars, uiVars>>
    \/ PipelineStep
    \/ \E written \in BOOLEAN : ImportReturnedOk(written) /\ UNCHANGED <<serverVars, wsVars, downloadVars, uiVars>>
    \/ ImportReturnedErr /\ UNCHANGED <<serverVars, wsVars, downloadVars, uiVars>>

\* one PrepareFile, from the moment the UI has sent it
SpecImport == InitImport /\ [][NextImport]_vars

\* a job of one file more than buffered_unordered polls at a time; the first
\* file imports or fails
WideJobs ==
    {[i \in 1..(ImportWidth + 1) |-> [name |-> "f", ok |-> i > 1 \/ ok1]] : ok1 \in BOOLEAN}

InitImportWide ==
    /\ ServerInit
    /\ DownloadOff
    /\ UiInit
    /\ NetReady
    /\ build = "native"
    /\ events = << >>
    /\ ws_loop = "off"
    /\ ws_pos = 0
    /\ nbad = 0
    /\ files \in WideJobs
    /\ coord = "wait"
    /\ imp = "off"
    /\ task = [i \in DOMAIN files |-> "queued"]
    /\ pos = [i \in DOMAIN files |-> 0]
    /\ completed = << >>
    /\ collection = << >>
    /\ committed = FALSE
    /\ sent = << >>

\* IrohNode::import of fling-native, and the coordinator around it
NextImportWide ==
    \/ PrepareFile /\ UNCHANGED <<serverVars, wsVars, downloadVars, uiVars>>
    \/ \E i \in DOMAIN files : ImportItem(i) /\ UNCHANGED <<serverVars, wsVars, downloadVars, uiVars>>
    \/ \E i \in DOMAIN files : ImportPollEnded(i) /\ UNCHANGED <<serverVars, wsVars, downloadVars, uiVars>>
    \/ \E ok \in BOOLEAN : ImportStore(ok) /\ UNCHANGED <<serverVars, wsVars, downloadVars, uiVars>>
    \/ \E written \in BOOLEAN : ImportReturnedOk(written) /\ UNCHANGED <<serverVars, wsVars, downloadVars, uiVars>>
    \/ ImportReturnedErr /\ UNCHANGED <<serverVars, wsVars, downloadVars, uiVars>>

SpecImportWide == InitImportWide /\ [][NextImportWide]_vars

(***************************************************************************)
(* The coordinator's command loop and its DownloadFile arm                 *)
(* (fling-native NativeNetwork::new; fling-gui runs the same arm)          *)
(*                                                                         *)
(* The ticket addresses a hash sequence.  Blob 1 is "the collection blob"  *)
(* whose size get_hash_seq_and_sizes reports at index 0, blobs 2.. are the *)
(* files.  What iroh-blobs does is the environment of this code:           *)
(*  - downloader.download(ticket.hash()) fetches the hash sequence itself, *)
(*    not the blobs it lists, so any of the listed blobs may be missing    *)
(*    when local() is asked;                                               *)
(*  - Progress(b) carries the bytes received so far by this execute_get,   *)
(*    over all blobs that were requested;                                  *)
(*  - Done is yielded once every requested blob has arrived.               *)
(***************************************************************************)
\* WebSocketMessage::DownloadFile(ticket), as UI::update puts it on from_ui
WsDownloadFile(t) == Msg("DownloadFile", NoName, t, {})

Blobs == DOMAIN sizes

RECURSIVE Sum(_)
\* size.iter().sum() over the blobs in S
Sum(S) == IF S = {} THEN 0
          ELSE LET i == CHOOSE x \in S : TRUE IN sizes[i] + Sum(S \ {i})

\* the collection blob, index 0 of the sizes
CollectionBlob == 1

otherVars == <<serverVars, wsVars, files, coord, imp, task, pos, completed, collection, committed>>

\* the job being served has ended: the loop awaits the next command
JobEnds(how) ==
    /\ outcome' = Append(outcome, how)
    /\ dl' = "recv"

\* try_or_continue!: FatalError(anyhow!(e).context(msg)) is sent and the loop
\* continues with the next command
TryOrContinue(msg) ==
    /\ events' = Append(events, FatalError(msg, ""))
    /\ JobEnds("failed")

\* from_ui.recv() yields DownloadFile(ticket): the arm is entered
TakeDownload ==
    /\ dl = "recv"
    /\ from_ui # << >>
    /\ Head(from_ui).type = "DownloadFile"
    /\ from_ui' = Tail(from_ui)
    /\ dl' = "download"
    /\ calls' = << >>
    /\ exported' = << >>
    /\ need' = {}
    /\ bytes' = 0
    /\ nitems' = 0
    /\ UNCHANGED <<sizes, have, ncmds, actual_size, live, next_entry, outcome, events, sent>>

\* the `_ =>` arm: any other message is written to the websocket; a failed
\* write sends FatalError("Websocket send failed")
Forward(written) ==
    /\ dl = "recv"
    /\ from_ui # << >>
    /\ Head(from_ui).type # "DownloadFile"
    /\ from_ui' = Tail(from_ui)
    /\ sent' = IF written THEN Append(sent, ToJson(Head(from_ui))) ELSE sent
    /\ events' = IF written THEN events
                 ELSE Append(events, FatalError("Websocket send failed", ""))
    /\ UNCHANGED <<sizes, have, ncmds, dl, need, actual_size, bytes, nitems, live,
                   next_entry, calls, exported, outcome>>

\* downloader.download(ticket.hash(), Some(ticket.addr().id)).await
DownloaderDownload(ok) ==
    /\ dl = "download"
    /\ calls' = Append(calls, "download")
    /\ IF ok THEN /\ dl' = "local"
                  /\ UNCHANGED <<events, outcome>>
             ELSE /\ events' = Append(events, FatalError("Download failed", ""))
                  /\ JobEnds("failed")
    /\ UNCHANGED <<sizes, have, from_ui, ncmds, need, actual_size, bytes, nitems, live,
                   next_entry, exported, sent>>

\* LocalInfo without the is_complete() test: the connection is always made
LocalInfo_AlwaysConnect(ok) ==
    /\ dl = "local"
    /\ calls' = Append(calls, "local")
    /\ IF ok THEN /\ need' = Blobs \ have
                  /\ dl' = "connect"
                  /\ UNCHANGED <<events, outcome>>
             ELSE /\ TryOrContinue("Failed to get local info")
                  /\ UNCHANGED need
    /\ UNCHANGED <<sizes, have, from_ui, ncmds, actual_size, bytes, nitems, live,
                   next_entry, exported, sent>>

\* store.remote().local(ticket.hash_and_format()).await, then
\* `if !local_info.is_complete()`
LocalInfo(ok) ==
    /\ dl = "local"
    /\ calls' = Append(calls, "local")
    /\ IF ok THEN /\ need' = Blobs \ have
                  /\ dl' = IF Blobs \ have = {} THEN "load" ELSE "connect"
                  /\ UNCHANGED <<events, outcome>>
             ELSE /\ TryOrContinue("Failed to get local info")
                  /\ UNCHANGED need
    /\ UNCHANGED <<sizes, have, from_ui, ncmds, actual_size, bytes, nitems, live,
                   next_entry, exported, sent>>

\* endpoint.connect(ticket.addr().id, iroh_blobs::ALPN).await
Connect(ok) ==
    /\ dl = "connect"
    /\ calls' = Append(calls, "connect")
    /\ IF ok THEN /\ dl' = "sizes"
                  /\ UNCHANGED <<events, outcome>>
             ELSE TryOrContinue("Failed to connect to sender")
    /\ UNCHANGED <<sizes, have, from_ui, ncmds, need, actual_size, bytes, nitems, live,
                   next_entry, exported, sent>>

\* GetSizes whose failure is reported but does not leave the arm: the fetch
\* is started all the same
GetSizes_ReportOnly(ok) ==
    /\ dl = "sizes"
    /\ calls' = IF ok THEN calls \o <<"sizes", "execute_get">> ELSE Append(calls, "sizes")
    /\ actual_size' = Sum(Blobs \ {CollectionBlob})
    /\ events' = IF ok THEN Append(events, DownloadStart)
                 ELSE Append(events, FatalError("Failed to get file(s) size", ""))
    /\ live' = TRUE
    /\ dl' = "fetch"
    /\ UNCHANGED <<sizes, have, from_ui, ncmds, need, bytes, nitems, next_entry,
                   exported, sent, outcome>>

\* get_hash_seq_and_sizes(..).await; then actual_size is the sum of the sizes
\* after index 0, execute_get(connection, local_info.missing()) is started
\* and DownloadStart is sent
GetSizes(ok) ==
    /\ dl = "sizes"
    /\ IF ok THEN /\ calls' = calls \o <<"sizes", "execute_get">>
                  /\ actual_size' = Sum(Blobs \ {CollectionBlob})
                  /\ events' = Append(events, DownloadStart)
                  /\ live' = TRUE
                  /\ dl' = "fetch"
                  /\ UNCHANGED outcome
             ELSE /\ calls' = Append(calls, "sizes")
                  /\ TryOrContinue("Failed to get file(s) size")
                  /\ UNCHANGED <<actual_size, live>>
    /\ UNCHANGED <<sizes, have, from_ui, ncmds, need, bytes, nitems, next_entry,
                   exported, sent>>

\* GetProgressItem::Progress(b): value = b as f32 / actual_size as f32
FetchProgress(k) ==
    /\ dl = "fetch" /\ live
    /\ nitems < MaxItems
    /\ bytes + k <= Sum(need)
    /\ bytes' = bytes + k
    /\ nitems' = nitems + 1
    /\ events' = Append(events, UpdateProgressValue(Fraction(bytes + k, actual_size)))
    /\ UNCHANGED <<sizes, have, from_ui, ncmds, dl, need, actual_size, live, next_entry,
                   calls, exported, outcome, sent>>

\* GetProgressItem::Done(_): DownloadDone is sent and the loop is left
FetchDone ==
    /\ dl = "fetch" /\ live
    /\ bytes = Sum(need)
    /\ have' = have \cup need
    /\ events' = Append(events, DownloadDone)
    /\ live' = FALSE
    /\ dl' = "load"
    /\ UNCHANGED <<sizes, from_ui, ncmds, need, actual_size, bytes, nitems, next_entry,
                   calls, exported, outcome, sent>>

\* FetchError that leaves the loop and ends the job
FetchError_EndsJob(ended) ==
    /\ dl = "fetch" /\ live
    /\ nitems < MaxItems
    /\ nitems' = nitems + 1
    /\ events' = Append(events, FatalError("Error downloading one of the files", ""))
    /\ live' = FALSE
    /\ JobEnds("failed")
    /\ UNCHANGED <<sizes, have, from_ui, ncmds, need, actual_size, bytes, next_entry,
                   calls, exported, sent>>

\* GetProgressItem::Error(e): FatalError is sent, the loop is not left.  The
\* stream ends with this item or goes on (ended).
FetchError(ended) ==
    /\ dl = "fetch" /\ live
    /\ nitems < MaxItems
    /\ nitems' = nitems + 1
    /\ events' = Append(events, FatalError("Error downloading one of the files", ""))
    /\ live' = ~ended
    /\ UNCHANGED <<sizes, have, from_ui, ncmds, dl, need, actual_size, bytes, next_entry,
                   calls, exported, outcome, sent>>

\* stream.next() yields None: the blobs in S have arrived whole
FetchEnd(S) ==
    /\ dl = "fetch" /\ ~live
    /\ S \subseteq need /\ Sum(S) <= bytes
    /\ have' = have \cup S
    /\ dl' = "load"
    /\ UNCHANGED <<sizes, from_ui, ncmds, need, actual_size, bytes, nitems, live,
                   next_entry, calls, exported, outcome, events, sent>>

\* Load whose Err arm goes on to the tag cleanup
Load_CleansUpOnError(ok) ==
    /\ dl = "load"
    /\ ok => CollectionBlob \in have
    /\ calls' = Append(calls, "load")
    /\ IF ok THEN /\ next_entry' = CollectionBlob + 1
                  /\ dl' = IF Len(sizes) > CollectionBlob THEN "export" ELSE "cleanup"
                  /\ UNCHANGED <<events, outcome>>
             ELSE /\ events' = Append(events, FatalError("Error loading collection", ""))
                  /\ dl' = "cleanup"
                  /\ UNCHANGED <<next_entry, outcome>>
    /\ UNCHANGED <<sizes, have, from_ui, ncmds, need, actual_size, bytes, nitems, live,
                   exported, sent>>

\* Collection::load(ticket.hash(), store).await: needs the collection blob
Load(ok) ==
    /\ dl = "load"
    /\ ok => CollectionBlob \in have
    /\ calls' = Append(calls, "load")
    /\ IF ok THEN /\ next_entry' = CollectionBlob + 1
                  /\ dl' = IF Len(sizes) > CollectionBlob THEN "export" ELSE "cleanup"
                  /\ UNCHANGED <<events, outcome>>
             ELSE /\ events' = Append(events, FatalError("Error loading collection", ""))
                  /\ JobEnds("failed")
                  /\ UNCHANGED next_entry
    /\ UNCHANGED <<sizes, have, from_ui, ncmds, need, actual_size, bytes, nitems, live,
                   exported, sent>>

\* Export whose failure leaves the loop
Export_StopsAtFailure(ok) ==
    /\ dl = "export"
    /\ ok => next_entry \in have
    /\ calls' = Append(calls, "export")
    /\ exported' = Append(exported, [blob |-> next_entry, ok |-> ok])
    /\ events' = IF ok THEN events
                 ELSE Append(events, FatalError("Error downloading file {p}: {e:?}", ""))
    /\ next_entry' = next_entry + 1
    /\ dl' = IF next_entry = Len(sizes) \/ ~ok THEN "cleanup" ELSE "export"
    /\ UNCHANGED <<sizes, have, from_ui, ncmds, need, actual_size, bytes, nitems, live,
                   outcome, sent>>

\* one round of `for (f, h) in c.into_iter()`: store.blobs().export(h, p);
\* Err sends FatalError and the loop goes on with the next entry
Export(ok) ==
    /\ dl = "export"
    /\ ok => next_entry \in have
    /\ calls' = Append(calls, "export")
    /\ exported' = Append(exported, [blob |-> next_entry, ok |-> ok])
    /\ events' = IF ok THEN events
                 ELSE Append(events, FatalError("Error downloading file {p}: {e:?}", ""))
    /\ next_entry' = next_entry + 1
    /\ dl' = IF next_entry = Len(sizes) THEN "cleanup" ELSE "export"
    /\ UNCHANGED <<sizes, have, from_ui, ncmds, need, actual_size, bytes, nitems, live,
                   outcome, sent>>

\* store.tags().delete_all().await.unwrap(): Err panics the coordinator task
DeleteAll(ok) ==
    /\ dl = "cleanup"
    /\ calls' = Append(calls, "delete_all")
    /\ IF ok THEN JobEnds("complete")
             ELSE dl' = "dead" /\ UNCHANGED outcome
    /\ UNCHANGED <<sizes, have, from_ui, ncmds, need, actual_size, bytes, nitems, live,
                   next_entry, exported, events, sent>>

(***************************************************************************)
(* The UI                                                                  *)
(***************************************************************************)
CoordVars == <<sizes, have, dl, need, actual_size, bytes, nitems, live, next_entry,
               calls, exported, outcome>>

\* network.send_ws(..): UI::update on AppEvent::DownloadFile(ticket), or
\* the nickname being published
UISend(m) ==
    /\ ~exited
    /\ ncmds < MaxCmds
    /\ ncmds' = ncmds + 1
    /\ from_ui' = Append(from_ui, m)
    /\ UNCHANGED <<CoordVars, events, sent, uiVars>>

\* UIUpdate that handles only the newest event and drops the ones before it
UIUpdate_NewestOnly ==
    /\ ~exited
    /\ ui_pos < Len(events)
    /\ ui_pos' = Len(events)
    /\ LET e == events[Len(events)] IN
         /\ progress' = IF e.type = "UpdateProgressValue" THEN e.value ELSE progress
         /\ is_downloading' = CASE e.type = "DownloadStart" -> TRUE
                                [] e.type = "DownloadDone" -> FALSE
                                [] OTHER -> is_downloading
         /\ from_ui' = IF e.type = "DownloadFile"
                       THEN Append(from_ui, WsDownloadFile(e.data))
                       ELSE from_ui
         /\ app_state' = CASE e.type = "ReadyToPublishUser" -> "PublishUser"
                            [] e.type = "RegisterSuccess" -> "Ready"
                            [] OTHER -> app_state
    /\ UNCHANGED <<CoordVars, ncmds, events, sent, exited, net>>

\* one round of `while let Some(app_event) = self.network.try_recv()`
UIUpdate ==
    /\ ~exited
    /\ ui_pos < Len(events)
    /\ ui_pos' = ui_pos + 1
    /\ LET e == events[ui_pos + 1] IN
         /\ progress' = IF e.type = "UpdateProgressValue" THEN e.value ELSE progress
         /\ is_downloading' = CASE e.type = "DownloadStart" -> TRUE
                                [] e.type = "DownloadDone" -> FALSE
                                [] OTHER -> is_downloading
         /\ from_ui' = IF e.type = "DownloadFile"
                       THEN Append(from_ui, WsDownloadFile(e.data))
                       ELSE from_ui
         /\ app_state' = CASE e.type = "ReadyToPublishUser" -> "PublishUser"
                            [] e.type = "RegisterSuccess" -> "Ready"
                            [] OTHER -> app_state
    /\ UNCHANGED <<CoordVars, ncmds, events, sent, exited, net>>

\* on_exit -> cleanup: a failed remove_dir_all sends FatalError
Cleanup(ok) ==
    /\ ~exited
    /\ exited' = TRUE
    /\ events' = IF ok THEN events
                 ELSE Append(events, FatalError("Failed to delete temp dir", ""))
    /\ UNCHANGED <<downloadVars, sent, ui_pos, progress, is_downloading, app_state, net>>

\* `(self.progress > 0.0 && self.progress < 1.0) || self.is_downloading`;
\* x/0 is inf or NaN, and neither is below 1.0 and above 0.0 at once
ProgressBarShown ==
    \/ progress.den > 0 /\ 0 < progress.num /\ progress.num < progress.den
    \/ is_downloading

\* a Collection of up to MaxBlobs files, none at all included
Contents == UNION {[1..n -> 0..MaxSize] : n \in 1..(MaxBlobs + 1)}

InitDownload ==
    /\ ServerInit
    /\ ImportOff
    /\ UiInit
    /\ NetReady
    /\ build = "native"
    /\ events = << >>
    /\ ws_loop = "off"
    /\ ws_pos = 0
    /\ nbad = 0
    /\ sizes \in {c \in Contents : c[CollectionBlob] > 0}
    /\ have \in SUBSET Blobs
    /\ from_ui = << >>
    /\ ncmds = 0
    /\ dl = "recv"
    /\ need = {}
    /\ actual_size = 0
    /\ bytes = 0
    /\ nitems = 0
    /\ live = FALSE
    /\ next_entry = 0
    /\ calls = << >>
    /\ exported = << >>
    /\ outcome = << >>

NextDownload ==
    \/ TakeDownload /\ UNCHANGED <<otherVars, uiVars>>
    \/ \E written \in BOOLEAN : Forward(written) /\ UNCHANGED <<otherVars, uiVars>>
    \/ \E ok \in BOOLEAN : DownloaderDownload(ok) /\ UNCHANGED <<otherVars, uiVars>>
    \/ \E ok \in BOOLEAN : LocalInfo(ok) /\ UNCHANGED <<otherVars, uiVars>>
    \/ \E ok \in BOOLEAN : Connect(ok) /\ UNCHANGED <<otherVars, uiVars>>
    \/ \E ok \in BOOLEAN : GetSizes(ok) /\ UNCHANGED <<otherVars, uiVars>>
    \/ \E k \in 1..(MaxBlobs * MaxSize + MaxSize) : FetchProgress(k) /\ UNCHANGED <<otherVars, uiVars>>
    \/ FetchDone /\ UNCHANGED <<otherVars, uiVars>>
    \/ \E ended \in BOOLEAN : FetchError(ended) /\ UNCHANGED <<otherVars, uiVars>>
    \/ \E S \in SUBSET Blobs : FetchEnd(S) /\ UNCHANGED <<otherVars, uiVars>>
    \/ \E ok \in BOOLEAN : Load(ok) /\ UNCHANGED <<otherVars, uiVars>>
    \/ \E ok \in BOOLEAN : Export(ok) /\ UNCHANGED <<otherVars, uiVars>>
    \/ \E ok \in BOOLEAN : DeleteAll(ok) /\ UNCHANGED <<otherVars, uiVars>>
    \/ \E m \in {WsDownloadFile(JobTicket), Register("a")} : UISend(m) /\ UNCHANGED otherVars
    \/ UIUpdate /\ UNCHANGED otherVars
    \/ \E ok \in BOOLEAN : Cleanup(ok) /\ UNCHANGED otherVars

\* the coordinator and the UI of one native client, from the moment the
\* websocket is connected
SpecDownload == InitDownload /\ [][NextDownload]_vars

(***************************************************************************)
(* The way of a ticket: server connection, client read task, UI            *)
(***************************************************************************)
NextTransfer ==
    \/ NextParse
    \/ UIUpdate /\ UNCHANGED otherVars

\* one client, the server connection it is the peer of, and its UI; the
\* client is sender and recipient of what it sends to its own nickname
SpecTransfer == InitParse /\ [][NextTransfer]_vars

(***************************************************************************)
(* Start-up: the network tasks are joined and the nickname is published    *)
(***************************************************************************)
ReadyToPublishUser == AppEvent("ReadyToPublishUser", "", {}, "")

\* the nickname the UI generated
OwnNickname == "a"

\* the contexts of ws_init and iroh_init
InitFailure == {"WebSocket connection failed", "Iroh node initialization failed"}

\* fling-gui, AppState::OnStartup: the download directory is looked up (a
\* failure sends FatalError and "." is used), the start-up task is spawned
\* and the state becomes Connecting
GuiOnStartup(dir_ok) ==
    /\ build = "gui"
    /\ ~exited
    /\ app_state = "OnStartup"
    /\ events' = IF dir_ok THEN events
                 ELSE Append(events, FatalError("Failed getting download dir", ""))
    /\ app_state' = "Connecting"
    /\ net' = "init"
    /\ UNCHANGED <<wsVars, downloadVars, sent, ui_pos, progress, is_downloading, exited>>

\* the start-up task: match tokio::try_join!(ws_init, iroh_init).  Ok spawns
\* the websocket read task and the coordinator; Err(e) sends
\* FatalError("Join handle error").  fling-native sends ReadyToPublishUser
\* after the match, fling-gui at the end of the Ok arm.
StartupTask(failure) ==
    /\ net = "init"
    /\ IF failure = "none"
       THEN /\ net' = "up"
            /\ ws_loop' = "run"
            /\ dl' = "recv"
            /\ events' = Append(events, ReadyToPublishUser)
       ELSE /\ net' = "failed"
            /\ events' = IF build = "native"
                         THEN events \o <<FatalError("Join handle error", failure),
                                          ReadyToPublishUser>>
                         ELSE Append(events, FatalError("Join handle error", failure))
            /\ UNCHANGED <<ws_loop, dl>>
    /\ UNCHANGED <<build, ws_pos, nbad, sizes, have, from_ui, ncmds, need, actual_size,
                   bytes, nitems, live, next_entry, calls, exported, outcome, sent,
                   ui_pos, progress, is_downloading, exited, app_state>>

\* UI::update, `match self.app_state`, AppState::PublishUser, reached when
\* try_recv has nothing more: send_ws(Register(nickname)), a failure sends
\* FatalError("Register send failed"); then WaitForRegisterConfirmation.
\* The send fails when the receiving end was dropped with the start-up task.
UIPublish(accepted) ==
    /\ ~exited
    /\ app_state = "PublishUser"
    /\ ui_pos = Len(events)
    /\ net = "up" => accepted
    /\ IF accepted
       THEN from_ui' = Append(from_ui, Register(OwnNickname)) /\ UNCHANGED events
       ELSE events' = Append(events, FatalError("Register send failed", ""))
            /\ UNCHANGED from_ui
    /\ app_state' = "WaitForRegisterConfirmation"
    /\ UNCHANGED <<wsVars, CoordVars, ncmds, sent, ui_pos, progress, is_downloading,
                   exited, net>>

startupFrame == <<serverVars, files, coord, imp, task, pos, completed, collection, committed>>

InitStartup ==
    /\ ServerInit
    /\ ImportOff
    /\ DownloadOff
    /\ UiInit
    /\ build \in {"native", "gui"}
    /\ IF build = "gui" THEN app_state = "OnStartup" /\ net = "off" ELSE NetInit
    /\ events = << >>
    /\ ws_loop = "off"
    /\ ws_pos = 0
    /\ nbad = 0

NextStartup ==
    \/ \E dir_ok \in BOOLEAN : GuiOnStartup(dir_ok) /\ UNCHANGED startupFrame
    \/ \E failure \in InitFailure \cup {"none"} : StartupTask(failure) /\ UNCHANGED startupFrame
    \/ UIUpdate /\ UNCHANGED otherVars
    \/ \E accepted \in BOOLEAN : UIPublish(accepted) /\ UNCHANGED startupFrame
    \/ \E written \in BOOLEAN : Forward(written) /\ UNCHANGED <<otherVars, uiVars>>
    \/ \E ok \in BOOLEAN : Cleanup(ok) /\ UNCHANGED otherVars

\* one client from construction to the Register it sends
SpecStartup == InitStartup /\ [][NextStartup]_vars

(***************************************************************************)
(* A Collection's entries and their export                                 *)
(***************************************************************************)
\* the bytes of the i-th file of the job: no two files have the same
Content(i) == i

\* an abstract store: the address of a content, and the content at an address
Address(c) == <<"hash", c>>
ContentAt(a) == a[2]

\* the (name, hash) entries of the committed Collection.  import: each
\* future yields its own (name, temp_tag), collected in completion order.
\* create_collection: the HashMap holds, for a name, the tag inserted last,
\* and the results are walked in the order of the input files
CollectionEntries ==
    IF build = "gui"
    THEN [k \in 1..Len(collection) |->
            LET I == {i \in DOMAIN files : files[i].name = collection[k] /\ task[i] = "done"}
            IN  [name |-> collection[k],
                 hash |-> Address(Content(CHOOSE i \in I : \A j \in I : j <= i))]]
    ELSE [k \in 1..Len(completed) |->
            [name |-> files[completed[k]].name, hash |-> Address(Content(completed[k]))]]

\* ExportLoop that writes every entry to the path of the first one
RECURSIVE ExportLoop_OnePath(_, _, _, _)
ExportLoop_OnePath(entries, failed, k, dir) ==
    IF k > Len(entries) THEN dir
    ELSE IF k \in failed THEN ExportLoop_OnePath(entries, failed, k + 1, dir)
    ELSE ExportLoop_OnePath(entries, failed, k + 1,
            {[name |-> entries[1].name, content |-> ContentAt(entries[k].hash)]})

\* `for (f, h) in c.into_iter()`: export(h, download_dir.join(f)) from the
\* k-th entry on; dir is the download directory as a set of (name, content),
\* failed the entries whose export returns Err
RECURSIVE ExportLoop(_, _, _, _)
ExportLoop(entries, failed, k, dir) ==
    IF k > Len(entries) THEN dir
    ELSE IF k \in failed THEN ExportLoop(entries, failed, k + 1, dir)
    ELSE ExportLoop(entries, failed, k + 1,
            {f \in dir : f.name # entries[k].name}
               \cup {[name |-> entries[k].name, content |-> ContentAt(entries[k].hash)]})

(***************************************************************************)
(* The UI's user set                                                       *)
(***************************************************************************)
\* UpdateUsers that inserts every nickname it is told of, its own included
UpdateUsers_NoOwnFilter(users, e, nickname) ==
    CASE e.type = "RegisterSuccess" -> e.users
      [] e.type = "AddNewUser" -> users \cup {e.data}
      [] e.type = "RemoveUser" -> users \ {e.data}
      [] OTHER -> users

\* UI::update on one event: RegisterSuccess replaces the set, AddNewUser
\* inserts a nickname that is not the UI's own, RemoveUser removes one
UpdateUsers(users, e, nickname) ==
    CASE e.type = "RegisterSuccess" -> e.users
      [] e.type = "AddNewUser" -> IF e.data # nickname THEN users \cup {e.data} ELSE users
      [] e.type = "RemoveUser" -> users \ {e.data}
      [] OTHER -> users

RECURSIVE UsersAfter(_, _, _)
\* UI.users after the events q, handled in order, starting from users
UsersAfter(users, q, nickname) ==
    IF q = << >> THEN users
    ELSE UsersAfter(UpdateUsers(users, Head(q), nickname), Tail(q), nickname)

RECURSIVE EventsOf(_)
\* the events that the read task of a native client sends for the frames q
EventsOf(q) ==
    IF q = << >> THEN << >> ELSE ProcessNative(Head(q)) \o EventsOf(Tail(q))

(***************************************************************************)
(* Vocabulary of the claims                                                *)
(***************************************************************************)
Range(q) == {q[i] : i \in 1..Len(q)}

IsPrefix(p, q) == Len(p) <= Len(q) /\ \A i \in 1..Len(p) : p[i] = q[i]

\* the frames of connection d's socket, as its client parses them
Observed(d) == [i \in 1..Len(sock[d]) |-> FromJson(sock[d][i])]

\* every message put on connection d's outbound queue so far, in order
Hist(d) == Observed(d) \o outq[d]

\* the broadcasts sent while connection d was subscribed
Published(d) == SubSeq(bcastLog, subAt[d] + 1, Len(bcastLog))

\* what d's broadcast_read has taken off the channel so far
Taken(d) == IF held[d] = NoMsg THEN << >> ELSE <<held[d]>>

IsJoined(m) == m.type = "UserJoined"
IsLeft(m) == m.type = "UserLeft"

\* the connection whose Register(n) was applied last, NoConn if there is none
LastReg(n) ==
    LET I == {i \in 1..Len(regSeq) : regSeq[i].nick = n}
    IN  IF I = {} THEN NoConn
        ELSE regSeq[CHOOSE i \in I : \A j \in I : j <= i].conn

NoDup == \A i, j \in 1..Len(regSeq) : regSeq[i].nick = regSeq[j].nick => i = j
NoClose == \A c \in Conn : status[c] # "closed"

\* the nicknames whose insert was applied among the first k inserts
Applied(k) == {regSeq[j].nick : j \in 1..k}

\* C2 as stated: with pairwise distinct nicknames and no disconnect, every
\* RegisterSuccess list is exactly the set of nicknames inserted strictly before
\* the registrant's own insert.
C2_ListIsExactlyEarlier ==
    (NoDup /\ NoClose) =>
        \A r \in replies : r.users = Applied(r.idx - 1)

\* C2 as amended: with pairwise distinct nicknames and no disconnect, every
\* RegisterSuccess list contains each nickname inserted before the registrant's
\* own insert, contains only nicknames inserted by the time the list was read
\* (so also those of Registers applied between its own insert and its read),
\* and never contains the registrant's own nickname.
C2_ListBetweenInsertAndRead ==
    (NoDup /\ NoClose) =>
        \A r \in replies :
            /\ Applied(r.idx - 1) \subseteq r.users
            /\ r.users \subseteq Applied(r.upto)
            /\ regSeq[r.idx].nick \notin r.users

\* two connections have registered distinct nicknames and both lists were read
C2_Witness ==
    /\ NoDup /\ NoClose
    /\ Len(regSeq) = 2 /\ regSeq[1].conn # regSeq[2].conn
    /\ \E r1, r2 \in replies : r1.idx = 1 /\ r2.idx = 2 /\ r2.users # {}

(***************************************************************************)
(* C3                                                                      *)
(***************************************************************************)
Joins(q) == SelectSeq(q, IsJoined)
Count(m, q) == Cardinality({i \in 1..Len(q) : q[i] = m})

\* c registered n and nobody else ever did
OnlyRegistrant(c, n) ==
    /\ \E i \in 1..Len(regSeq) : regSeq[i].nick = n
    /\ \A i \in 1..Len(regSeq) : regSeq[i].nick = n => regSeq[i].conn = c

Lefts(q) == SelectSeq(q, IsLeft)

\* nothing is in flight towards connection d
Quiescent(d) == bq[d] = << >> /\ held[d] = NoMsg /\ outq[d] = << >>

\* C4: the UserLeft of every close that happened while connection d was open is
\* delivered to d exactly once: once nothing is in flight towards d, its socket
\* has carried one UserLeft per such close, none missing and none doubled.
C4_LeftDeliveredOnce ==
    \A d \in Conn :
        (status[d] = "open" /\ Quiescent(d)) =>
            Lefts(Observed(d)) = Lefts(Published(d))

C6_RoutedOnceToRecipient ==
    [][\A c \in Conn, r \in Nick, t \in Ticket :
          /\ RouteSend(c, r, t) =>
               /\ status[users_list[r]] = "open" =>
                     outq'[users_list[r]] = Append(outq[users_list[r]], ReceiveFile(t))
               /\ \A e \in Conn \ {users_list[r]} : outq'[e] = outq[e]
          /\ (RouteResume(c) /\ arg[c].users = {r} /\ arg[c].ticket = t) =>
               /\ status[users_list[r]] = "open" =>
                     outq'[users_list[r]] = Append(outq[users_list[r]], ReceiveFile(t))
               /\ \A e \in Conn \ {users_list[r]} : outq'[e] = outq[e]
          /\ RouteWait(c, r, t) => outq' = outq]_vars

\* a ReceiveFile is on the queue of a registered connection that did not ask for it
C6_Witness ==
    \E d \in Conn :
        /\ current_username[d] \in Nick
        /\ users_list[current_username[d]] = d
        /\ outq[d] # << >>
        /\ outq[d][Len(outq[d])] = ReceiveFile("t1")

(***************************************************************************)
(* C7                                                                      *)
(***************************************************************************)
\* C7: a SendFile whose recipient is not in the directory changes no queue, no
\* socket, no broadcast and not the directory.
C7_UnknownRecipientDropped ==
    [][\A c \in Conn, r \in Nick, t \in Ticket :
          RouteDrop(c, r, t) =>
              /\ outq' = outq /\ sock' = sock
              /\ bq' = bq /\ held' = held /\ bcastLog' = bcastLog
              /\ users_list' = users_list]_vars

\* one item was read, nobody has registered or closed and every queue is still
\* empty: the item was a SendFile that was dropped
C7_Witness ==
    /\ ninputs = 1
    /\ regSeq = << >>
    /\ \A c \in Conn : status[c] = "open" /\ Hist(c) = << >> /\ pc[c] = "recv"

(***************************************************************************)
(* C8                                                                      *)
(***************************************************************************)
\* C8: a text frame that does not parse produces an explicit error on both
\* sides and ends neither read loop: on the server the step that reads it puts
\* exactly one ErrorDeserializingJson on the sender's queue, touches no other
\* queue and not the directory, and leaves the connection open and reading; on
\* the client the step that reads it sends exactly one FatalError("Message
\* parse failed") event and leaves the read task running.
C8_ParseFailureIsExplicit ==
    [][/\ \A c \in Conn :
            ParseFailure(c) =>
                /\ outq'[c] = Append(outq[c], ErrorDeserializingJson)
                /\ \A d \in Conn \ {c} : outq'[d] = outq[d]
                /\ users_list' = users_list
                /\ status'[c] = "open" /\ pc'[c] = "recv"
       /\ ClientBadFrame =>
                /\ events' = Append(events, FatalError("Message parse failed", ""))
                /\ ws_loop' = "run"]_vars

(***************************************************************************)
(* C9                                                                      *)
(***************************************************************************)
Failing == {i \in DOMAIN files : ~files[i].ok}

DistinctNames ==
    \A i, j \in DOMAIN files : files[i].name = files[j].name => i = j

IsImportError(e) ==
    e.type = "FatalError" /\ e.context \in {"Error importing", "Failed to add blob"}

\* C9: a job in which some files fail still completes: as long as the pipeline
\* has not returned it can take a step, and when it has returned Ok the
\* committed Collection holds exactly the files that imported successfully, in
\* completion order (file names pairwise distinct), and one fatal-error event
\* was sent per failing file.
C9_PartialImportCompletes ==
    (imp # "off" /\ Failing # {}) =>
        /\ imp \in {"ok", "err"} \/ ENABLED PipelineStep
        /\ imp = "ok" =>
              /\ DistinctNames => collection = Names(completed)
              /\ Len(SelectSeq(events, IsImportError)) = Cardinality(Failing)

(***************************************************************************)
(* C10                                                                     *)
(***************************************************************************)
\* C10: when the committed Collection is empty, the coordinator sends no
\* SendFile for the job.
C10_EmptyCollectionNotSent ==
    (committed /\ collection = << >>) => sent = << >>

(***************************************************************************)
(* C11                                                                     *)
(***************************************************************************)
Last(q) == q[Len(q)]

\* the contexts of the three try_or_continue! of the DownloadFile arm
EarlyFailure ==
    {"Failed to get local info", "Failed to connect to sender", "Failed to get file(s) size"}

\* this step of the coordinator reports that local(), connect() or
\* get_hash_seq_and_sizes() failed
FailsEarly ==
    /\ calls' # calls
    /\ Len(events') > Len(events)
    /\ Last(events').type = "FatalError"
    /\ Last(events').context \in EarlyFailure

\* C11: when the local-completeness query, the connect or the size query of a
\* download fails, that step sends exactly one FatalError and ends the job as
\* failed: the job has made no execute_get, load, export or delete_all call,
\* has made each of its calls once, and the loop is back at from_ui.recv(),
\* where the next queued command is taken.
C11_EarlyFailureEndsJob ==
    /\ [][FailsEarly =>
            /\ events' = Append(events, Last(events'))
            /\ outcome' = Append(outcome, "failed")
            /\ dl' = "recv"
            /\ \A i \in 1..Len(calls') :
                  /\ calls'[i] \in {"download", "local", "connect", "sizes"}
                  /\ \A j \in 1..Len(calls') : calls'[i] = calls'[j] => i = j
            /\ UNCHANGED <<have, exported, from_ui, sent>>]_vars
    /\ []((dl = "recv" /\ from_ui # << >>) =>
            ENABLED (TakeDownload \/ \E written \in BOOLEAN : Forward(written)))

\* the size query of the first job failed after download, local and connect
\* went well, and the second command has been taken from the queue
C11_Witness ==
    /\ outcome = <<"failed">>
    /\ Len(events) > 0
    /\ Last(events) = FatalError("Failed to get file(s) size", "")
    /\ ncmds = 2 /\ from_ui = << >>
    /\ dl = "download"

(***************************************************************************)
(* C12                                                                     *)
(***************************************************************************)
\* the calls of a job that exports n entries without having fetched
StraightToExport(n) ==
    <<"download", "local", "load">> \o [i \in 1..n |-> "export"] \o <<"delete_all">>

\* C12: when local() answers while every blob of the ticket's content is in
\* the store, the job goes from there to Collection::load, and from its
\* first call to its last it makes no connect, no get_hash_seq_and_sizes and
\* no execute_get: its calls are download (which finds the content local),
\* local, load, one export per entry, delete_all.
C12_CompleteSkipsFetch ==
    /\ [][(dl = "local" /\ Blobs \subseteq have /\ dl' \notin {"local", "recv"}) =>
              (dl' = "load" /\ need' = {})]_vars
    /\ []((Len(calls) >= 2 /\ need = {}) =>
              IsPrefix(calls, StraightToExport(Len(sizes) - 1)))

\* a job found both files of its content local and has exported them and
\* cleaned up, with nothing reported
C12_Witness ==
    /\ Len(sizes) = 3
    /\ need = {}
    /\ calls = StraightToExport(2)
    /\ outcome = <<"complete">>
    /\ events = << >>

(***************************************************************************)
(* C13                                                                     *)
(***************************************************************************)
\* an f32 quotient num/den that lies in [0,1]: x/0 is inf or NaN
InUnitInterval(v) == v.den > 0 /\ 0 <= v.num /\ v.num <= v.den

ProgressValues ==
    {events[i].value : i \in {j \in 1..Len(events) : events[j].type = "UpdateProgressValue"}}

\* C13: every value sent with UpdateProgressValue lies in [0,1], whichever
\* blobs were missing and whatever Progress items the stream yields.
C13_ProgressInUnitInterval ==
    \A v \in ProgressValues : InUnitInterval(v)

(***************************************************************************)
(* C14                                                                     *)
(***************************************************************************)
\* the value of the last UpdateProgressValue sent so far
LastProgress ==
    LET I == {i \in 1..Len(events) : events[i].type = "UpdateProgressValue"}
    IN  events[CHOOSE i \in I : \A j \in I : j <= i].value

\* the stream of the job being served has just yielded Done, after Progress
\* items
FetchedToDone ==
    /\ dl = "load" /\ need # {}
    /\ events # << >> /\ Last(events).type = "DownloadDone"
    /\ bytes > 0

\* C14: when the payload total is above 0 and the stream yields Done, the
\* last value sent with UpdateProgressValue before that DownloadDone is 1.0,
\* also when only part of the content was missing and fetched (here: the
\* collection blob was local, so that every byte fetched is a payload byte).
C14_LastProgressIsOne ==
    (FetchedToDone /\ actual_size > 0 /\ CollectionBlob \notin need)
        => LastProgress.num = LastProgress.den

(***************************************************************************)
(* C15                                                                     *)
(***************************************************************************)
ItemError == FatalError("Error downloading one of the files", "")

\* this step takes an Error item from the fetch stream
TakesErrorItem ==
    /\ dl = "fetch"
    /\ Len(events') > Len(events)
    /\ Last(events') = ItemError

\* C15: the step that takes an Error item sends exactly one FatalError and
\* stays in the stream loop with the job not ended; while the stream is live
\* its next item is taken, be it Progress, Done or another Error; the loop is
\* left only to Collection::load, the start of the export step, which is
\* what the coordinator does when the stream has ended.
C15_ErrorItemDoesNotEndJob ==
    /\ [][TakesErrorItem =>
            /\ events' = Append(events, ItemError)
            /\ dl' = "fetch"
            /\ UNCHANGED <<outcome, calls, exported, have, bytes, need, from_ui>>]_vars
    /\ [][(dl = "fetch" /\ dl' # "fetch") => (dl' = "load" /\ UNCHANGED outcome)]_vars
    /\ []((dl = "fetch" /\ live /\ nitems < MaxItems) =>
            /\ ENABLED (\E ended \in BOOLEAN : FetchError(ended))
            /\ bytes < Sum(need) =>
                 ENABLED (\E k \in 1..(MaxBlobs * MaxSize + MaxSize) : FetchProgress(k))
            /\ bytes = Sum(need) => ENABLED FetchDone)
    /\ []((dl = "fetch" /\ ~live) => ENABLED (\E S \in SUBSET Blobs : FetchEnd(S)))

\* the stream yielded Error, then Progress, then Done, and the job has gone
\* on to export an entry
C15_Witness ==
    /\ Len(events) = 4
    /\ events[1] = DownloadStart
    /\ events[2] = ItemError
    /\ events[3].type = "UpdateProgressValue"
    /\ events[4] = DownloadDone
    /\ Len(calls) > 0 /\ Last(calls) = "export"

(***************************************************************************)
(* C16                                                                     *)
(***************************************************************************)
ExportError == FatalError("Error downloading file {p}: {e:?}", "")

\* the entries of the Collection, in the order of c.into_iter()
Entries == [i \in 1..(Len(sizes) - 1) |-> i + 1]

Attempted == [i \in 1..Len(exported) |-> exported[i].blob]

\* C16: each round of the export loop makes one export attempt for the next
\* entry; a failed attempt sends one FatalError, a successful one sends
\* nothing, and either way the loop goes on with the entry after it.  When
\* the loop is left, every entry of the Collection has been attempted once,
\* in order.
C16_ExportGoesOnAfterFailure ==
    /\ [][(dl = "export" /\ exported' # exported) =>
            LET a == Last(exported') IN
            /\ exported' = Append(exported, a)
            /\ a.blob = next_entry
            /\ events' = IF a.ok THEN events ELSE Append(events, ExportError)
            /\ next_entry' = next_entry + 1
            /\ dl' = IF next_entry < Len(sizes) THEN "export" ELSE "cleanup"]_vars
    /\ [](dl = "export" =>
            /\ IsPrefix(Attempted, Entries) /\ Attempted # Entries
            /\ next_entry = Entries[Len(exported) + 1]
            /\ ENABLED (\E ok \in BOOLEAN : Export(ok)))
    /\ [](dl = "cleanup" => Attempted = Entries)

\* the export of the first of two entries failed, the second was exported
C16_Witness ==
    /\ dl = "cleanup"
    /\ exported = <<[blob |-> 2, ok |-> FALSE], [blob |-> 3, ok |-> TRUE]>>
    /\ events # << >> /\ Last(events) = ExportError

(***************************************************************************)
(* C17                                                                     *)
(***************************************************************************)
\* C17: the step that calls delete_all, whether it fails or not, brings the
\* coordinator back to from_ui.recv(); on_exit, whether remove_dir_all fails
\* or not, sends at most one FatalError and leaves the coordinator as it is;
\* the coordinator's task never dies.
C17_CleanupFailureNotEscalated ==
    /\ [][(dl = "cleanup" /\ calls' # calls) => dl' = "recv"]_vars
    /\ [][(~exited /\ exited') =>
            /\ UNCHANGED downloadVars
            /\ \/ events' = events
               \/ events' = Append(events, FatalError("Failed to delete temp dir", ""))]_vars
    /\ [](dl # "dead")

(***************************************************************************)
(* C18                                                                     *)
(***************************************************************************)
\* a DownloadFile job has been started and has not ended
JobInProgress ==
    dl \in {"download", "local", "connect", "sizes", "fetch", "load", "export", "cleanup"}

\* C18: while a download job is in progress, the command at the head of
\* from_ui can be taken: a second DownloadFile starts its job, any other
\* message is forwarded to the websocket.
C18_JobsRunConcurrently ==
    (JobInProgress /\ from_ui # << >>) =>
        ENABLED (TakeDownload \/ \E written \in BOOLEAN : Forward(written))

(***************************************************************************)
(* C19                                                                     *)
(***************************************************************************)
\* a download job has ended, the coordinator is idle and the UI has handled
\* every event sent to it
JobEndedAndSeen ==
    /\ outcome # << >>
    /\ dl = "recv"
    /\ ui_pos = Len(events)

\* C19: once a download job has ended, as complete or as failed, and the UI
\* has handled its events, UI.progress is 0, UI.is_downloading is false and
\* the progress bar is not shown.
C19_ProgressResetAfterJob ==
    JobEndedAndSeen =>
        /\ progress.num = 0
        /\ ~is_downloading
        /\ ~ProgressBarShown

(***************************************************************************)
(* C20                                                                     *)
(***************************************************************************)
\* C20: a committed Collection has no two entries with the same file name.
C20_UniqueFileNames ==
    committed =>
        \A i, j \in 1..Len(collection) : collection[i] = collection[j] => i = j

(***************************************************************************)
(* C21                                                                     *)
(***************************************************************************)
\* the files whose import future has been started and has not finished
InProgress == {i \in DOMAIN files : task[i] \in {"run", "spin"}}

Cleanups == {i \in 1..Len(calls) : calls[i] = "delete_all"}

\* the job being served has ended, or has died in its cleanup
JobOver == dl \in {"recv", "dead"} /\ calls # << >>

\* C22: a download job calls delete_all at most once, and when it does,
\* Collection::load came before it, followed by one export attempt for each
\* entry of the Collection and nothing else.  A job that is over without
\* having called delete_all has failed and has exported nothing; a job that
\* is over and has exported anything, or has completed, has called it.
C22_CleanupOnceAfterExport ==
    /\ Cardinality(Cleanups) <= 1
    /\ Cleanups # {} =>
          /\ Attempted = Entries
          /\ \E k \in 1..Len(calls) :
                /\ calls[k] = "load"
                /\ SubSeq(calls, k + 1, Len(calls)) =
                      [i \in 1..Len(Entries) |-> "export"] \o <<"delete_all">>
    /\ (JobOver /\ Cleanups = {}) =>
          /\ exported = << >>
          /\ Last(outcome) = "failed"
          /\ Last(calls) \in {"download", "local", "connect", "sizes", "load"}

\* a job that fetched its content has attempted both exports, one of which
\* failed, and has cleaned up
C22_Witness ==
    /\ outcome = <<"complete">>
    /\ calls # << >> /\ Last(calls) = "delete_all"
    /\ Len(exported) = 2 /\ ~exported[1].ok /\ exported[2].ok
    /\ need # {}

(***************************************************************************)
(* C23                                                                     *)
(***************************************************************************)
\* the tickets of the messages, or events, of type ty in q, in order
TicketsOf(q, ty) ==
    LET Is(m) == m.type = ty
        sel == SelectSeq(q, Is)
    IN  [i \in 1..Len(sel) |-> IF ty = "DownloadFile" /\ "data" \in DOMAIN sel[i]
                                THEN sel[i].data ELSE sel[i].ticket]

Imported == {i \in DOMAIN files : task[i] = "done"}

\* the files in S as (name, content)
Originals(S) == {[name |-> files[i].name, content |-> Content(i)] : i \in S}

\* C24: when the names of the job's files are pairwise distinct, the
\* committed Collection has one entry per imported file, and exporting it
\* into an empty directory writes, for each imported file, one file of the
\* same name and the same content and nothing else; when some exports fail,
\* what is written is still a subset of the imported files.
C24_ImportExportRoundTrip ==
    (committed /\ DistinctNames) =>
        /\ [k \in 1..Len(CollectionEntries) |-> CollectionEntries[k].name] = collection
        /\ Len(CollectionEntries) = Cardinality(Imported)
        /\ ExportLoop(CollectionEntries, {}, 1, {}) = Originals(Imported)
        /\ \A failed \in SUBSET (1..Len(CollectionEntries)) :
              ExportLoop(CollectionEntries, failed, 1, {}) \subseteq Originals(Imported)

\* a Collection of two files with different names has been committed,
\* with an import that finished the second file first
C24_Witness ==
    /\ committed
    /\ Len(files) = 2 /\ DistinctNames
    /\ completed = <<2, 1>>
    /\ Len(collection) = 2

(***************************************************************************)
(* C25                                                                     *)
(***************************************************************************)
IsProgress(e) == e.type = "UpdateProgressValue"

\* events i and j were sent by the same download job
SameJob(i, j) == \A k \in (i + 1)..j : events[k].type # "DownloadStart"

\* C25: each Progress item of the fetch stream sends one UpdateProgressValue
\* with that item's byte count; events are only ever appended; the UI
\* handles them one by one in the order sent and stores the value of each
\* UpdateProgressValue it handles.  So the values of one job reach the UI in
\* stream order, and they are non-decreasing as the byte counts are.
C25_ProgressInStreamOrder ==
    /\ [][(dl = "fetch" /\ bytes' # bytes) =>
              events' = Append(events, UpdateProgressValue(Fraction(bytes', actual_size)))]_vars
    /\ [][IsPrefix(events, events')]_vars
    /\ [][ui_pos' # ui_pos =>
              /\ ui_pos' = ui_pos + 1
              /\ progress' = IF IsProgress(events[ui_pos']) THEN events[ui_pos'].value
                             ELSE progress]_vars
    /\ [](\A i, j \in 1..Len(events) :
              (i < j /\ IsProgress(events[i]) /\ IsProgress(events[j]) /\ SameJob(i, j)) =>
                  /\ events[i].value.den = events[j].value.den
                  /\ events[i].value.num <= events[j].value.num)

\* the stream yielded two Progress items, the UI has handled both and shows
\* the second
C25_Witness ==
    /\ Len(SelectSeq(events, IsProgress)) = 2
    /\ ui_pos = Len(events)
    /\ progress = LastProgress
    /\ progress.num = 2

(***************************************************************************)
(* C26                                                                     *)
(***************************************************************************)
\* C26: the socket of a connection changes only by the step of its write
\* task, which takes the message at the head of the connection's queue and
\* writes its JSON as the next frame; the frames written followed by the
\* messages still queued only ever grow at the end as long as the connection
\* is open (what is queued when it closes is dropped).  So every frame is
\* written in the order in which its message was enqueued.
C26_WrittenInQueueOrder ==
    [][\A c \in Conn :
          /\ sock'[c] # sock[c] =>
                /\ outq[c] # << >>
                /\ Forwarded(Head(outq[c]))
                /\ sock'[c] = Append(sock[c], ToJson(Head(outq[c])))
                /\ outq'[c] = Tail(outq[c])
          /\ status'[c] = "open" => IsPrefix(Hist(c), Hist(c)')]_vars

\* a connection's socket carries two frames of different kinds while a third
\* message waits in its queue
C26_Witness ==
    \E c \in Conn :
        /\ Len(sock[c]) = 2
        /\ sock[c][1].tag # sock[c][2].tag
        /\ outq[c] # << >>

(***************************************************************************)
(* C27                                                                     *)
(***************************************************************************)
\* C27: the step in which a connection's read task removes its directory
\* entry on disconnect leaves every nickname that maps to another, open
\* connection mapped to that connection.
C27_CloseKeepsOthersEntries ==
    [][\A c \in Conn :
          CloseRemove(c) =>
              \A n \in Nick :
                  (users_list[n] \notin {NoConn, c} /\ status[users_list[n]] = "open")
                      => users_list'[n] = users_list[n]]_vars

(***************************************************************************)
(* C28                                                                     *)
(***************************************************************************)
\* nothing is in flight: every read task awaits its next frame or is over,
\* every queue and every broadcast receiver is empty
AllDelivered ==
    \A c \in Conn : pc[c] \in {"off", "recv", "done"} /\ Quiescent(c)

\* connection c is open and has registered, once
RegisteredOnce(c) ==
    /\ status[c] = "open"
    /\ Cardinality({i \in 1..Len(regSeq) : regSeq[i].conn = c}) = 1

\* the user set of the client of connection c when it has handled every
\* frame written to its socket
ClientUsers(c) == UsersAfter({}, EventsOf(sock[c]), current_username[c])

\* C28: when nothing is in flight, no subscriber has lagged and the
\* registered nicknames are pairwise distinct, the user set of each
\* registered client is exactly the set of the other registered nicknames.
C28_UserSetsConverge ==
    (/\ AllDelivered
     /\ \A c \in Conn : sub[c] # "lagged"
     /\ \A i, j \in 1..Len(regSeq) : regSeq[i].nick = regSeq[j].nick => i = j)
    => \A c \in Conn :
          RegisteredOnce(c) => ClientUsers(c) = Keys \ {current_username[c]}

(***************************************************************************)
(* C29                                                                     *)
(***************************************************************************)
\* import takes an item off some file's stream or stores the Collection
ImportAdvance ==
    \/ \E i \in DOMAIN files : ImportItem(i)
    \/ \E ok \in BOOLEAN : ImportStore(ok)

\* C29: every ImportJob terminates: import() that has not returned can still
\* advance (take a stream item or store the Collection), whatever the
\* outcomes of the files, and no file's loop is left polling a stream that
\* has ended.
C29_ImportTerminates ==
    (build = "native" /\ imp = "run") =>
        /\ ENABLED ImportAdvance
        /\ \A i \in DOMAIN files : task[i] # "spin"

(***************************************************************************)
(* C30                                                                     *)
(***************************************************************************)
\* C30: every nickname in the directory belongs to an open connection: no
\* nickname that a closed connection registered, an earlier one it replaced
\* by registering again included, is still mapped to that connection, and no
\* RegisterSuccess list computed after the close names it.
C30_DirectoryHoldsOpenConnections ==
    /\ [](\A n \in Keys : status[users_list[n]] = "open")
    /\ [][\A c \in Conn :
             RegisterList(c) =>
                 \A n \in arg'[c].users : status[users_list[n]] = "open"]_vars

(***************************************************************************)
(* C31                                                                     *)
(***************************************************************************)
IsRegisterSuccess(m) == m.type = "RegisterSuccess"

\* the directory inserts that connection c has made
InsertsOf(c) == {i \in 1..Len(regSeq) : regSeq[i].conn = c}

\* C31: on Register(n) the insert comes first, then the registrant's
\* RegisterSuccess is queued, then UserJoined(n) is broadcast: when a read task
\* broadcasts UserJoined(n) its insert of n has been applied and one
\* RegisterSuccess per insert has been put on its own queue, and every
\* UserJoined(n) a connection has been sent names a nickname that was inserted.
C31_InsertReplyBroadcastOrder ==
    /\ [][\A c \in Conn :
             RegisterBroadcast(c) =>
                 /\ arg[c].idx \in InsertsOf(c)
                 /\ regSeq[arg[c].idx].nick = current_username[c]
                 /\ Len(SelectSeq(Hist(c), IsRegisterSuccess)) = Cardinality(InsertsOf(c))]_vars
    /\ [](\A d \in Conn : \A n \in Nick :
             UserJoined(n) \in Range(Hist(d)) => \E i \in 1..Len(regSeq) : regSeq[i].nick = n)

\* a connection has been sent the UserJoined of another connection's Register
C31_Witness ==
    \E c, d \in Conn :
        /\ c # d
        /\ current_username[c] # NoName
        /\ pc[c] = "recv"
        /\ UserJoined(current_username[c]) \in Range(Observed(d))
        /\ RegisterSuccess({}) \in Range(Observed(c))

(***************************************************************************)
(* C32                                                                     *)
(***************************************************************************)
IsDownloadStart(e) == e.type = "DownloadStart"
IsDownloadDone(e) == e.type = "DownloadDone"

\* C32: every DownloadStart is followed by a DownloadDone of the same job:
\* whenever the coordinator is not inside a fetch loop, it has sent as many
\* DownloadDone events as DownloadStart events, whatever the stream yielded.
C32_DownloadStartHasDone ==
    dl # "fetch" =>
        Len(SelectSeq(events, IsDownloadDone)) = Len(SelectSeq(events, IsDownloadStart))

(***************************************************************************)
(* C33                                                                     *)
(***************************************************************************)
\* C33: every ImportStart is followed by an ImportDone: when the coordinator
\* of fling-native has left the PrepareFile arm, with the import returned Ok or Err, it has
\* sent ImportDone after the ImportStart of the job.
C33_ImportStartHasDone ==
    (build = "native" /\ coord = "idle") =>
        \E i, j \in 1..Len(events) :
            /\ i < j
            /\ events[i] = ImportStart
            /\ events[j] = ImportDone

(***************************************************************************)
(* C34                                                                     *)
(***************************************************************************)
\* the fetch stream of the job being served has yielded Done: a DownloadDone
\* was sent after the last DownloadStart
FetchYieldedDone ==
    \E i, j \in 1..Len(events) :
        /\ i < j
        /\ events[i] = DownloadStart
        /\ events[j] = DownloadDone
        /\ \A k \in (i + 1)..Len(events) : events[k] # DownloadStart

\* C34: files are exported only when the content is complete locally: while
\* a job is in its export step, either its local-completeness check found
\* nothing missing or its fetch stream has yielded Done.
C34_ExportOnlyWhenComplete ==
    dl = "export" => (need = {} \/ FetchYieldedDone)

(***************************************************************************)
(* C35                                                                     *)
(***************************************************************************)
\* C35: a connection that closes without ever having sent Register changes
\* nothing: the step that handles its close leaves the directory as it is,
\* and every UserLeft sent on the broadcast channel names a nickname that
\* was registered.
C35_UnregisteredCloseIsSilent ==
    /\ [][\A c \in Conn :
             (CloseRemove(c) /\ InsertsOf(c) = {}) => users_list' = users_list]_vars
    /\ [](\A i \in 1..Len(bcastLog) :
             IsLeft(bcastLog[i]) =>
                 \E j \in 1..Len(regSeq) : regSeq[j].nick = bcastLog[i].nick)

(***************************************************************************)
(* C36                                                                     *)
(***************************************************************************)
\* C36: a SendFile that waits for room in its recipient's queue delays only
\* the read task that routes it: every other connection whose read task is
\* at receiver.next() can still register any nickname and can still
\* disconnect.
C36_RouteWaitBlocksOnlySender ==
    \A c, d \in Conn :
        (pc[c] = "route_wait" /\ d # c /\ CanRecv(d)) =>
            /\ \A n \in Nick : ENABLED RegisterInsert(d, n)
            /\ ENABLED CloseRemove(d)

(***************************************************************************)
(* C37                                                                     *)
(***************************************************************************)
\* C37: the subscriber task of a connection relays broadcasts for as long as
\* the connection is open: it is running in every state in which its
\* connection is open, also after it has fallen more than the channel's
\* capacity behind.
C37_SubscriberOutlivesLag ==
    \A c \in Conn : status[c] = "open" => sub[c] = "run"

(***************************************************************************)
(* C38                                                                     *)
(***************************************************************************)
IsFatalError(e) == e.type = "FatalError"

\* C38: the UI is in the registration phase (PublishUser,
\* WaitForRegisterConfirmation) only when both the signaling connection and
\* the node initialization have succeeded; when either has failed, a
\* FatalError has been sent and no ReadyToPublishUser.
C38_RegistrationOnlyAfterStartup ==
    /\ app_state \in {"PublishUser", "WaitForRegisterConfirmation"} => net = "up"
    /\ net = "failed" =>
          /\ \E i \in 1..Len(events) : IsFatalError(events[i])
          /\ ReadyToPublishUser \notin Range(events)

(***************************************************************************)
(* C39                                                                     *)
(***************************************************************************)
\* the client of connection c has nickname n: it has registered no other
RegistersOnlyAs(c, n) == \A i \in InsertsOf(c) : regSeq[i].nick = n

\* C39: the user set of a client never contains the client's own nickname:
\* whatever frames the server has written to the socket of a client with
\* nickname n, in whatever order, the set the UI holds after handling them
\* does not contain n.
C39_OwnNicknameNeverListed ==
    \A c \in Conn : \A n \in Nick :
        RegistersOnlyAs(c, n) => n \notin UsersAfter({}, EventsOf(sock[c]), n)

\* a client has been sent its RegisterSuccess and the echo of its own
\* UserJoined, and lists another user
C39_Witness ==
    \E c \in Conn :
        /\ InsertsOf(c) # {}
        /\ RegistersOnlyAs(c, current_username[c])
        /\ UserJoined(current_username[c]) \in Range(Observed(c))
        /\ \E us \in SUBSET Nick : RegisterSuccess(us) \in Range(Observed(c))
        /\ ClientUsers(c) # {}
====
